---- MODULE Spec2Model ----
(***************************************************************************)
(* agent-haymaker: the file-backed State Store (workloads/file_platform.py), *)
(* the Deployment Locator (cli/lifecycle.py), the Registry and its install  *)
(* pipeline (workloads/registry.py), the workload contract                  *)
(* (workloads/base.py) and the deploy and stop commands (cli/deploy.py,     *)
(* cli/lifecycle.py), as state machines.                                    *)
(*                                                                         *)
(* Strings that the code inspects character by character (deployment ids,   *)
(* manifest sources) are sequences of one-character atoms; "BSL", "SP" and  *)
(* "LF" stand for backslash, space and line feed.                           *)
(***************************************************************************)
EXTENDS Integers, Sequences, FiniteSets, TLC

\* ------------------------------------------------------------------ bounds
\* Longest deployment id drawn as an input of the sanitizer.
MaxIdLen == 2
\* Longest manifest package.source, in path segments, drawn as an input of install.
MaxSourceLen == 3
\* The longest list of installed plugins of the entry point group.
MaxPlugins == 2
\* The most subclasses of WorkloadBase defined in one run.
MaxClasses == 2

\* =========================================================================
\* State Store: workloads/file_platform.py, workloads/models.py
\* =========================================================================

Letters == {"a", "b", "c"}
Digits == {"7"}
Chars == Letters \cup Digits \cup {"-", "_", ".", "/", "BSL", "SP", "LF"}

\* [a-zA-Z0-9]
AlnumChars == Letters \cup Digits
\* [a-zA-Z0-9._-]
SafeChars == AlnumChars \cup {".", "_", "-"}

AllIds == UNION {[1..k -> Chars] : k \in 0..MaxIdLen}

\* re.compile(r"^[a-zA-Z0-9][a-zA-Z0-9._-]*$").match(id): Python's "$" matches at
\* the end of the string and also just before a line feed that ends the string.
SafeIdPatternMatch(id) ==
    /\ Len(id) >= 1
    /\ id[1] \in AlnumChars
    /\ \/ \A i \in 2..Len(id) : id[i] \in SafeChars
       \/ /\ id[Len(id)] = "LF"
          /\ \A i \in 2..(Len(id) - 1) : id[i] \in SafeChars

HasPathSeparator(id) == \E i \in 1..Len(id) : id[i] \in {"/", "BSL"}

HasDotDot(id) == \E i \in 1..(Len(id) - 1) : id[i] = "." /\ id[i + 1] = "."

\* _sanitize_deployment_id: the id itself, or the ValueError it raises.
SanitizeDeploymentId(id) ==
    IF id = <<>> THEN [ok |-> FALSE, err |-> "ValueError", msg |-> "empty"]
    ELSE IF HasPathSeparator(id)
        THEN [ok |-> FALSE, err |-> "ValueError", msg |-> "path separators"]
    ELSE IF HasDotDot(id)
        THEN [ok |-> FALSE, err |-> "ValueError", msg |-> "path traversal"]
    ELSE IF ~SafeIdPatternMatch(id)
        THEN [ok |-> FALSE, err |-> "ValueError", msg |-> "invalid characters"]
    ELSE [ok |-> TRUE, err |-> "", msg |-> ""]

\* A _state_path that drops the id: every deployment shares one file.
StatePathShared(id) == <<"state", ".json">>

\* FilePlatform._state_path: state_dir / f"{safe_id}.json", a file name of the state
\* directory (the id followed by the suffix).
StatePath(id) == Append(id, ".json")

\* ---------------------------------------------------------------- the codec
\* DeploymentStatus
Statuses == {"pending", "running", "stopped", "completed", "failed", "cleaning_up"}

NoneVal == "None"

\* Values a config: dict[str, Any] can hold, by Python type.
PyValues == {[t |-> ty, v |-> <<"x">>] : ty \in {"str", "list", "tuple"}}

\* config dictionaries: empty, or one key "k".
EmptyDict == [k \in {} |-> [t |-> "str", v |-> <<"x">>]]
Configs == {EmptyDict} \cup {[k \in {"k"} |-> pv] : pv \in PyValues}

\* JSON has one array type: a list and a tuple are both written as an array.
ToJsonValue(pv) ==
    IF pv.t \in {"list", "tuple"} THEN [t |-> "array", v |-> pv.v]
    ELSE [t |-> "string", v |-> pv.v]

\* A JSON array is read back as a list, a JSON string as a str.
FromJsonValue(jv) ==
    IF jv.t = "array" THEN [t |-> "list", v |-> jv.v]
    ELSE [t |-> "str", v |-> jv.v]

\* A model_dump_json that leaves the timestamp out (written as null).
ModelDumpJsonNoTime(s) ==
    [deployment_id |-> s.deployment_id,
     workload_name |-> s.workload_name,
     status        |-> s.status,
     started_at    |-> <<"null">>,
     stopped_at    |-> <<"null">>,
     completed_at  |-> <<"null">>,
     config        |-> [k \in DOMAIN s.config |-> ToJsonValue(s.config[k])]]

\* state.model_dump_json(indent=2): the JSON document of a DeploymentState.
ModelDumpJson(s) ==
    [deployment_id |-> s.deployment_id,
     workload_name |-> s.workload_name,
     status        |-> s.status,
     started_at    |-> IF s.started_at = NoneVal THEN <<"null">>
                       ELSE <<"iso", s.started_at>>,
     stopped_at    |-> IF s.stopped_at = NoneVal THEN <<"null">>
                       ELSE <<"iso", s.stopped_at>>,
     completed_at  |-> IF s.completed_at = NoneVal THEN <<"null">>
                       ELSE <<"iso", s.completed_at>>,
     config        |-> [k \in DOMAIN s.config |-> ToJsonValue(s.config[k])]]

\* File contents: nothing yet written after the truncating open ("empty"), text
\* that is no JSON document ("garbage"), or a document ("json").
NoDoc == ModelDumpJson([deployment_id |-> <<>>, workload_name |-> "", status |-> "",
                        started_at |-> NoneVal, stopped_at |-> NoneVal,
                        completed_at |-> NoneVal, config |-> EmptyDict])
EmptyText == [kind |-> "empty", doc |-> NoDoc]
GarbageText == [kind |-> "garbage", doc |-> NoDoc]
JsonText(d) == [kind |-> "json", doc |-> d]

\* DeploymentState.model_validate_json(raw) accepts a JSON document whose status is
\* a DeploymentStatus value, and raises ValidationError on anything else.
Parses(raw) == raw.kind = "json" /\ raw.doc.status \in Statuses

ModelValidateJson(raw) ==
    [deployment_id |-> raw.doc.deployment_id,
     workload_name |-> raw.doc.workload_name,
     status        |-> raw.doc.status,
     started_at    |-> IF raw.doc.started_at = <<"null">> THEN NoneVal
                       ELSE raw.doc.started_at[2],
     stopped_at    |-> IF raw.doc.stopped_at = <<"null">> THEN NoneVal
                       ELSE raw.doc.stopped_at[2],
     completed_at  |-> IF raw.doc.completed_at = <<"null">> THEN NoneVal
                       ELSE raw.doc.completed_at[2],
     config        |-> [k \in DOMAIN raw.doc.config |-> FromJsonValue(raw.doc.config[k])]]

\* ------------------------------------------------------------ the directory
VARIABLES
    files,      \* the state directory: file name -> text
    writer,     \* the save in progress in the writing process, if any
    lastSaved,  \* deployment id -> the state passed to its latest completed save
    everSaved,  \* the ids ever passed to a save that reached the file system
    overwritten, \* the ids whose record a later completed save has replaced
    storeLast,  \* the latest State Store call: operation, arguments, outcome
    probe,      \* the DeploymentState drawn as the input of the codec runs
    stage,      \* how far the codec run has got
    registry,   \* WorkloadRegistry._workloads: the registered names, in dict order
    registered, \* the names passed to register_workload on this registry
    classes,    \* WorkloadRegistry._workloads: registered name -> workload class
    platform,   \* WorkloadRegistry._platform
    regLast,    \* the latest registry call: operation, arguments, outcome
    entryPoints, \* the entry points of the group agent_haymaker.workloads
    answers,    \* workload name -> deployment id -> what its get_status does
    cache,      \* lifecycle._deployment_index: deployment id -> workload name
    locLast,    \* the latest Locator step: the resolve call and what it did
    repo,       \* what the repository being installed holds: manifest, links
    installedOk, \* whether an install call has returned with the package installed
    instLast,   \* the latest install call: its inputs, its steps, its outcome
    defined,    \* the subclasses of WorkloadBase whose class statement was accepted
    defLast,    \* the latest class statement and what __init_subclass__ did with it
    deployed,   \* deployment id -> the status its workload's get_status reports
    cliLast     \* the latest CLI command: arguments, workload calls, exit code

storeVars ==
    <<files, writer, lastSaved, everSaved, overwritten, storeLast, probe, stage>>
locVars == <<registry, registered, classes, platform, regLast, entryPoints, answers, cache, locLast>>
instVars == <<repo, instLast, installedOk>>
cliVars == <<defined, defLast, deployed, cliLast>>
vars == <<storeVars, locVars, instVars, cliVars>>

NoState == [deployment_id |-> <<>>, workload_name |-> "", status |-> "",
            started_at |-> NoneVal, stopped_at |-> NoneVal, completed_at |-> NoneVal,
            config |-> EmptyDict]

Idle == [busy |-> FALSE, state |-> NoState]

\* path.write_text / an editor writing to the directory: the file now holds text.
WriteFile(fs, path, text) ==
    [p \in DOMAIN fs \cup {path} |-> IF p = path THEN text ELSE fs[p]]

Outcome(kind, val, touched) == [kind |-> kind, val |-> val, fs |-> touched]

\* A load_deployment_state without the path.exists() test: reading a missing file
\* raises.
LoadWithoutExistsTest(fs, id) ==
    IF ~SanitizeDeploymentId(id).ok THEN Outcome("ValueError", <<>>, {})
    ELSE IF StatePath(id) \notin DOMAIN fs
        THEN Outcome("FileNotFoundError", <<>>, {StatePath(id)})
    ELSE IF ~Parses(fs[StatePath(id)])
        THEN Outcome("ValidationError", <<>>, {StatePath(id)})
    ELSE Outcome("state", <<ModelValidateJson(fs[StatePath(id)])>>, {StatePath(id)})

\* FilePlatform.load_deployment_state: the state, None, or the error raised; with
\* the file names it touched.
LoadDeploymentState(fs, id) ==
    IF ~SanitizeDeploymentId(id).ok THEN Outcome("ValueError", <<>>, {})
    ELSE IF StatePath(id) \notin DOMAIN fs THEN Outcome("None", <<>>, {StatePath(id)})
    ELSE IF ~Parses(fs[StatePath(id)])
        THEN Outcome("ValidationError", <<>>, {StatePath(id)})
    ELSE Outcome("state", <<ModelValidateJson(fs[StatePath(id)])>>, {StatePath(id)})

\* A loop body without the workload_name test: every state that parses is appended.
ScanOneUnfiltered(results, text, workload_name) ==
    IF Parses(text) THEN Append(results, ModelValidateJson(text)) ELSE results

\* The body of the loop of list_deployments for one file: a state that parses and
\* matches is appended, an exception is logged and the file skipped.
ScanOne(results, text, workload_name) ==
    IF Parses(text) /\ ModelValidateJson(text).workload_name = workload_name
    THEN Append(results, ModelValidateJson(text))
    ELSE results

\* FilePlatform.list_deployments: the loop over state_dir.glob("*.json"), in the
\* order the directory yields the files.
RECURSIVE ScanFiles(_, _, _, _)
ScanFiles(fs, todo, results, workload_name) ==
    IF todo = {} THEN results
    ELSE LET p == CHOOSE q \in todo : TRUE
         IN ScanFiles(fs, todo \ {p}, ScanOne(results, fs[p], workload_name),
                      workload_name)

GlobJson(fs) == {p \in DOMAIN fs : p[Len(p)] = ".json"}

ListDeployments(fs, workload_name) ==
    Outcome("list", ScanFiles(fs, GlobJson(fs), <<>>, workload_name), GlobJson(fs))

\* save_deployment_state up to the truncating open of path.write_text: the
\* ValueError of _state_path, or the directory with the file created or emptied.
SaveOpen(fs, s) == WriteFile(fs, StatePath(s.deployment_id), EmptyText)

\* save_deployment_state once write_text has written and closed the file.
SaveWritten(fs, s) ==
    WriteFile(fs, StatePath(s.deployment_id), JsonText(ModelDumpJson(s)))

\* ---------------------------------------------------- inputs of the store runs
Names == {"w1", "w2"}
IdA == <<"a">>
IdB == <<"b">>
CorruptId == <<"c">>

\* The states the store runs save: two valid ids and one with a path separator.
StoreStates ==
    [deployment_id : {IdA, IdB, <<"a", "/">>},
     workload_name : Names,
     status        : {"running", "stopped"},
     started_at    : {NoneVal},
     stopped_at    : {NoneVal},
     completed_at  : {NoneVal},
     config        : {EmptyDict, [k \in {"k"} |-> [t |-> "tuple", v |-> <<"x">>]]}]

\* The ids the store runs load.
LoadIds == {IdA, IdB, CorruptId, <<>>, <<"a", "/">>, <<".", "a">>, <<"a", "LF">>}

\* The states the codec runs save: every id up to MaxIdLen, every status, both
\* kinds of timestamp, every config.
CodecStates ==
    [deployment_id : AllIds,
     workload_name : {"w1"},
     status        : Statuses,
     started_at    : {NoneVal, "t1"},
     stopped_at    : {NoneVal},
     completed_at  : {NoneVal},
     config        : Configs]

Call(op, id, wl, res) == [op |-> op, id |-> id, wl |-> wl, res |-> res]
NoCall == Call("none", <<>>, "", Outcome("", <<>>, {}))

StoreInit ==
    /\ files = [p \in {} |-> EmptyText]
    /\ writer = Idle
    /\ lastSaved = [i \in {} |-> NoState]
    /\ everSaved = {}
    /\ overwritten = {}
    /\ storeLast = NoCall
    /\ probe = NoState
    /\ stage = "store"

\* save_deployment_state(s), first half: _state_path raises, or the file is opened
\* for writing, which empties it.
SaveBegin(s) ==
    /\ ~writer.busy
    /\ IF SanitizeDeploymentId(s.deployment_id).ok
       THEN /\ files' = SaveOpen(files, s)
            /\ writer' = [busy |-> TRUE, state |-> s]
            /\ everSaved' = everSaved \cup {s.deployment_id}
            /\ storeLast' = Call("save_open", s.deployment_id, "",
                                 Outcome("", <<>>, {StatePath(s.deployment_id)}))
       ELSE /\ storeLast' = Call("save", s.deployment_id, "",
                                 Outcome("ValueError", <<>>, {}))
            /\ UNCHANGED <<files, writer, everSaved>>
    /\ UNCHANGED <<lastSaved, overwritten, probe, stage>>
    /\ UNCHANGED <<locVars, instVars, cliVars>>

\* save_deployment_state(s), second half: the text is written and the file closed.
SaveEnd ==
    /\ writer.busy
    /\ files' = SaveWritten(files, writer.state)
    /\ lastSaved' = [i \in DOMAIN lastSaved \cup {writer.state.deployment_id} |->
                        IF i = writer.state.deployment_id THEN writer.state
                        ELSE lastSaved[i]]
    /\ writer' = Idle
    /\ storeLast' = Call("save", writer.state.deployment_id, "",
                         Outcome("ok", <<>>, {StatePath(writer.state.deployment_id)}))
    /\ overwritten' = IF writer.state.deployment_id \in DOMAIN lastSaved
                      THEN overwritten \cup {writer.state.deployment_id}
                      ELSE overwritten
    /\ UNCHANGED <<everSaved, probe, stage>>
    /\ UNCHANGED <<locVars, instVars, cliVars>>

\* load_deployment_state(id), called by a reader at any moment.
Load(id) ==
    /\ storeLast' = Call("load", id, "", LoadDeploymentState(files, id))
    /\ UNCHANGED <<files, writer, lastSaved, everSaved, overwritten, probe, stage>>
    /\ UNCHANGED <<locVars, instVars, cliVars>>

\* list_deployments(workload_name), called by a reader at any moment.
List(wl) ==
    /\ storeLast' = Call("list", <<>>, wl, ListDeployments(files, wl))
    /\ UNCHANGED <<files, writer, lastSaved, everSaved, overwritten, probe, stage>>
    /\ UNCHANGED <<locVars, instVars, cliVars>>

\* The start that re-deploys: the stopped deployment's state is read and a new
\* deployment with its config is saved under another id.
StartByRedeploy(fs, id) ==
    LET old == LoadDeploymentState(fs, id)
        new == <<id[1], "7">>
    IN  IF old.kind # "state"
        THEN [res |-> Outcome("False", <<>>, old.fs), fs |-> fs]
        ELSE [res |-> Outcome("True", <<new>>, old.fs \cup {StatePath(new)}),
              fs |-> SaveWritten(fs, [old.val[1] EXCEPT !.deployment_id = new,
                                                        !.status = "running"])]

\* WorkloadBase.start(deployment_id), the default: raises NotImplementedError; it
\* reads nothing, deploys nothing (val: the ids deployed) and saves nothing.
WorkloadBaseStart(fs, id) ==
    [res |-> Outcome("NotImplementedError", <<>>, {}), fs |-> fs]

\* workload.start(id) on a workload that does not override start.
Start(id) ==
    LET r == WorkloadBaseStart(files, id)
    IN  /\ files' = r.fs
        /\ storeLast' = Call("start", id, "", r.res)
        /\ UNCHANGED <<writer, lastSaved, everSaved, overwritten, probe, stage>>
        /\ UNCHANGED <<locVars, instVars, cliVars>>

\* Something other than save leaves a file that is no JSON in the directory (the
\* corrupt.json of test_list_ignores_corrupt_files).
PlantCorrupt ==
    /\ StatePath(CorruptId) \notin DOMAIN files
    /\ files' = WriteFile(files, StatePath(CorruptId), GarbageText)
    /\ storeLast' = Call("plant", CorruptId, "", Outcome("", <<>>, {}))
    /\ UNCHANGED <<writer, lastSaved, everSaved, overwritten, probe, stage>>
    /\ UNCHANGED <<locVars, instVars, cliVars>>

StoreNext ==
    \/ \E s \in StoreStates : SaveBegin(s)
    \/ SaveEnd
    \/ \E id \in LoadIds : Load(id)
    \/ \E wl \in Names : List(wl)
    \/ PlantCorrupt
    \/ \E id \in {IdA, IdB} : Start(id)

\* ------------------------------------------------------------ the codec runs
\* One process, one state: load before any save, save, load again.
CodecInit ==
    /\ files = [p \in {} |-> EmptyText]
    /\ writer = Idle
    /\ lastSaved = [i \in {} |-> NoState]
    /\ everSaved = {}
    /\ overwritten = {}
    /\ storeLast = NoCall
    /\ probe \in CodecStates
    /\ stage = "init"

\* load_deployment_state(probe.deployment_id) before the id was ever saved.
CodecLoadFresh ==
    /\ stage = "init"
    /\ stage' = "fresh"
    /\ storeLast' = Call("load", probe.deployment_id, "",
                         LoadDeploymentState(files, probe.deployment_id))
    /\ UNCHANGED <<files, writer, lastSaved, everSaved, overwritten, probe>>
    /\ UNCHANGED <<locVars, instVars, cliVars>>

\* save_deployment_state(probe), run to its end with nothing in between.
CodecSave ==
    /\ stage \in {"init", "fresh"}
    /\ stage' = "saved"
    /\ IF SanitizeDeploymentId(probe.deployment_id).ok
       THEN /\ files' = SaveWritten(SaveOpen(files, probe), probe)
            /\ lastSaved' = [i \in {probe.deployment_id} |-> probe]
            /\ everSaved' = {probe.deployment_id}
            /\ storeLast' = Call("save", probe.deployment_id, "",
                                 Outcome("ok", <<>>, {StatePath(probe.deployment_id)}))
       ELSE /\ storeLast' = Call("save", probe.deployment_id, "",
                                 Outcome("ValueError", <<>>, {}))
            /\ UNCHANGED <<files, lastSaved, everSaved>>
    /\ UNCHANGED <<writer, overwritten, probe>>
    /\ UNCHANGED <<locVars, instVars, cliVars>>

\* load_deployment_state(probe.deployment_id) right after the save.
CodecLoad ==
    /\ stage = "saved"
    /\ stage' = "loaded"
    /\ storeLast' = Call("load", probe.deployment_id, "",
                         LoadDeploymentState(files, probe.deployment_id))
    /\ UNCHANGED <<files, writer, lastSaved, everSaved, overwritten, probe>>
    /\ UNCHANGED <<locVars, instVars, cliVars>>

CodecNext == CodecLoadFresh \/ CodecSave \/ CodecLoad


\* ------------------------------------------------------------ the record runs
\* The instants a timestamp can hold, and their order.
Times == {"t1", "t2"}
Instant == [t1 |-> 1, t2 |-> 2]

\* The states the record runs save: one id, both workload names, every
\* combination of the three timestamps.
RecordStates ==
    [deployment_id : {IdA},
     workload_name : Names,
     status        : {"running"},
     started_at    : Times \cup {NoneVal},
     stopped_at    : Times \cup {NoneVal},
     completed_at  : Times \cup {NoneVal},
     config        : {EmptyDict}]

\* save_deployment_state(s), run to its end: whatever state the caller hands over
\* is dumped and written over the file of its id.
SaveState(s) ==
    /\ files' = SaveWritten(SaveOpen(files, s), s)
    /\ lastSaved' = [i \in DOMAIN lastSaved \cup {s.deployment_id} |->
                        IF i = s.deployment_id THEN s ELSE lastSaved[i]]
    /\ everSaved' = everSaved \cup {s.deployment_id}
    /\ overwritten' = IF s.deployment_id \in DOMAIN lastSaved
                      THEN overwritten \cup {s.deployment_id}
                      ELSE overwritten
    /\ storeLast' = Call("save", s.deployment_id, "",
                         Outcome("ok", <<>>, {StatePath(s.deployment_id)}))
    /\ UNCHANGED <<writer, probe, stage>>
    /\ UNCHANGED <<locVars, instVars, cliVars>>

\* load_deployment_state(id) between two saves.
LoadState(id) ==
    /\ storeLast' = Call("load", id, "", LoadDeploymentState(files, id))
    /\ UNCHANGED <<files, writer, lastSaved, everSaved, overwritten, probe, stage>>
    /\ UNCHANGED <<locVars, instVars, cliVars>>

RecordNext ==
    \/ \E s \in RecordStates : SaveState(s)
    \/ \E id \in {IdA, IdB} : LoadState(id)


\* =========================================================================
\* State Store: properties
\* =========================================================================

\* What a state reads back as after model_dump_json and model_validate_json.
RoundTrip(s) == ModelValidateJson(JsonText(ModelDumpJson(s)))

\* A config that holds only values JSON has a type for.
JsonNative(s) == \A k \in DOMAIN s.config : s.config[k].t \in {"str", "list"}

\* A save of id has emptied the file and not yet written it.
Rewriting(id) == writer.busy /\ writer.state.deployment_id = id

Count(x, seq) == Cardinality({i \in 1..Len(seq) : seq[i] = x})

\* No two files of the directory hold a record of the same deployment_id.
OneRecordPerId ==
    \A p, q \in DOMAIN files :
        (/\ Parses(files[p])
         /\ Parses(files[q])
         /\ files[p].doc.deployment_id = files[q].doc.deployment_id) => p = q

\* C1 as stated: the store holds at most one record per deployment_id, and a load
\* of D, once no save of D is under way, returns the very state passed to the most
\* recent save of D.
C1_LoadReturnsLastSavedState ==
    /\ OneRecordPerId
    /\ (/\ storeLast.op = "load"
        /\ storeLast.id \in DOMAIN lastSaved
        /\ ~Rewriting(storeLast.id))
       => /\ storeLast.res.kind = "state"
          /\ storeLast.res.val = <<lastSaved[storeLast.id]>>

\* C1, amended: the store holds at most one record per deployment_id, and a load
\* of D, once no save of D is under way, returns what the state passed to the most
\* recent save of D reads back as from JSON (the state itself when its config is
\* JSON-native), whatever was saved under other ids.
C1_LoadReturnsLastSavedRecord ==
    /\ OneRecordPerId
    /\ (/\ storeLast.op = "load"
        /\ storeLast.id \in DOMAIN lastSaved
        /\ ~Rewriting(storeLast.id))
       => /\ storeLast.res.kind = "state"
          /\ storeLast.res.val = <<RoundTrip(lastSaved[storeLast.id])>>
          /\ storeLast.res.val[1].deployment_id = storeLast.id
          /\ JsonNative(lastSaved[storeLast.id])
                => storeLast.res.val = <<lastSaved[storeLast.id]>>

\* C1 witness: A was saved twice, B was saved with another workload name, and a
\* load of A returned A's latest state.
C1_Witness ==
    /\ storeLast.op = "load"
    /\ storeLast.id = IdA
    /\ IdA \in overwritten
    /\ IdB \in DOMAIN lastSaved
    /\ ~writer.busy
    /\ lastSaved[IdB].workload_name # lastSaved[IdA].workload_name
    /\ storeLast.res.val = <<lastSaved[IdA]>>

\* C2 as stated: a state saved and then loaded by its id comes back equal in every
\* field.
C2_RoundTripIsIdentity ==
    (stage = "loaded" /\ probe.deployment_id \in DOMAIN lastSaved)
        => storeLast.res.val = <<probe>>

\* C2, amended: a state saved and then loaded by its id comes back equal in
\* deployment_id, workload_name, status and started_at, with the same config keys;
\* a config value comes back equal unless it is a tuple, which comes back as the
\* list of its elements; so a state whose config is JSON-native comes back equal
\* in every field.
C2_RoundTripUpToJson ==
    (stage = "loaded" /\ probe.deployment_id \in DOMAIN lastSaved)
        => /\ storeLast.res.kind = "state"
           /\ LET got == storeLast.res.val[1]
              IN /\ got.deployment_id = probe.deployment_id
                 /\ got.workload_name = probe.workload_name
                 /\ got.status = probe.status
                 /\ got.started_at = probe.started_at
                 /\ DOMAIN got.config = DOMAIN probe.config
                 /\ \A k \in DOMAIN probe.config :
                       /\ got.config[k].v = probe.config[k].v
                       /\ got.config[k].t =
                             IF probe.config[k].t = "tuple" THEN "list"
                             ELSE probe.config[k].t
                 /\ JsonNative(probe) => got = probe

\* C2 witness: a state with a timestamp and a list in its config was saved and
\* loaded back equal.
C2_Witness ==
    /\ stage = "loaded"
    /\ probe.started_at = "t1"
    /\ probe.status = "cleaning_up"
    /\ "k" \in DOMAIN probe.config
    /\ probe.config["k"].t = "list"
    /\ storeLast.res.val = <<probe>>

\* C3 as stated: a load of an id never passed to save returns None and raises
\* nothing.
C3_NeverSavedLoadsNone ==
    (storeLast.op = "load" /\ storeLast.id \notin everSaved)
        => storeLast.res.kind = "None"

\* C3, amended: a load of an id never passed to save returns None and raises
\* nothing when the id passes _sanitize_deployment_id and the directory holds no
\* file under it; an id the sanitizer rejects raises its ValueError instead.
C3_NeverSavedValidLoadsNone ==
    (storeLast.op = "load" /\ storeLast.id \notin everSaved)
        => /\ (/\ SanitizeDeploymentId(storeLast.id).ok
               /\ StatePath(storeLast.id) \notin DOMAIN files)
                  => storeLast.res.kind = "None"
           /\ ~SanitizeDeploymentId(storeLast.id).ok
                  => storeLast.res.kind = "ValueError"

\* C3 witness: with A saved and a corrupt file around, B, never saved, loads as
\* None.
C3_Witness ==
    /\ storeLast.op = "load"
    /\ storeLast.id = IdB
    /\ IdB \notin everSaved
    /\ IdA \in DOMAIN lastSaved
    /\ StatePath(CorruptId) \in DOMAIN files
    /\ storeLast.res.kind = "None"

\* The identifiers C4 names: empty, with a path separator, with "..", starting
\* with a dot, or with a character outside letters, digits, "-", "_" and ".".
UnsafeId(id) ==
    \/ id = <<>>
    \/ \E i \in 1..Len(id) : id[i] \in {"/", "BSL"}
    \/ \E i \in 1..(Len(id) - 1) : id[i] = "." /\ id[i + 1] = "."
    \/ (Len(id) >= 1 /\ id[1] = ".")
    \/ \E i \in 1..Len(id) : id[i] \notin Letters \cup Digits \cup {"-", "_", "."}

\* C4: save and load of an unsafe identifier raise the validation error without
\* touching the file system, and no file is ever addressed by such an identifier.
C4_UnsafeIdsRejected ==
    (stage # "init" /\ UnsafeId(probe.deployment_id))
        => /\ storeLast.res.kind = "ValueError"
           /\ storeLast.res.fs = {}
           /\ DOMAIN files = {}

\* The records of the directory that list(wl) is to return: the files that parse
\* and carry workload_name wl.
Matching(wl) ==
    {p \in DOMAIN files :
        Parses(files[p]) /\ files[p].doc.workload_name = wl}

\* C5: list(wl) never raises and returns exactly the records of workload wl: each
\* file that parses and matches once, nothing else; so every saved record of wl
\* that is not being rewritten appears once, and no record of another workload and
\* no malformed file appears.
C5_ListReturnsExactlyMatching ==
    storeLast.op = "list"
        => /\ storeLast.res.kind = "list"
           /\ Len(storeLast.res.val) = Cardinality(Matching(storeLast.wl))
           /\ \A p \in Matching(storeLast.wl) :
                 Count(ModelValidateJson(files[p]), storeLast.res.val) = 1
           /\ \A i \in 1..Len(storeLast.res.val) :
                 /\ storeLast.res.val[i].workload_name = storeLast.wl
                 /\ \E id \in DOMAIN lastSaved :
                       storeLast.res.val[i] = RoundTrip(lastSaved[id])
           /\ \A id \in DOMAIN lastSaved :
                 (~Rewriting(id) /\ lastSaved[id].workload_name = storeLast.wl)
                    => Count(RoundTrip(lastSaved[id]), storeLast.res.val) = 1

\* C5 witness: the directory holds a record of w1, a record of w2 and a corrupt
\* file, and list("w1") returned the one record of w1.
C5_Witness ==
    /\ storeLast.op = "list"
    /\ storeLast.wl = "w1"
    /\ ~writer.busy
    /\ StatePath(CorruptId) \in DOMAIN files
    /\ DOMAIN lastSaved = {IdA, IdB}
    /\ lastSaved[IdA].workload_name = "w1"
    /\ lastSaved[IdB].workload_name = "w2"
    /\ storeLast.res.val = <<RoundTrip(lastSaved[IdA])>>

\* C6: a load of D, or a list scan, that runs while a save is replacing D's record
\* sees the complete prior record or the complete new one.
C6_SaveReplacesAtomically ==
    /\ (/\ storeLast.op = "load"
        /\ Rewriting(storeLast.id)
        /\ storeLast.id \in DOMAIN lastSaved)
       => /\ storeLast.res.kind = "state"
          /\ storeLast.res.val[1] \in {RoundTrip(lastSaved[storeLast.id]),
                                       RoundTrip(writer.state)}
    /\ (/\ storeLast.op = "list"
        /\ writer.busy
        /\ writer.state.deployment_id \in DOMAIN lastSaved
        /\ writer.state.workload_name = storeLast.wl
        /\ lastSaved[writer.state.deployment_id].workload_name = storeLast.wl)
       => \E i \in 1..Len(storeLast.res.val) :
             storeLast.res.val[i].deployment_id = writer.state.deployment_id

\* The stored records: the files of the directory that parse.
Records == {p \in DOMAIN files : Parses(files[p])}

TimeFields == {"started_at", "stopped_at", "completed_at"}

\* The three timestamps of a stored record are present and in order.
InOrder(doc) ==
    (\A f \in TimeFields : doc[f] # <<"null">>)
        => /\ Instant[doc.started_at[2]] <= Instant[doc.stopped_at[2]]
           /\ Instant[doc.stopped_at[2]] <= Instant[doc.completed_at[2]]

\* C22: in the stored record of every deployment_id, across any sequence of
\* saves, a timestamp that is set is never changed or cleared by a later save, and
\* when all three are set started_at <= stopped_at <= completed_at.
C22_TimestampsSetOnce ==
    /\ [](\A p \in Records : InOrder(files[p].doc))
    /\ [][\A p \in Records : \A f \in TimeFields :
             (files[p].doc[f] # <<"null">> /\ p \in DOMAIN files')
                => files'[p].doc[f] = files[p].doc[f]]_vars

\* C23: the record stored under a deployment_id carries that deployment_id, and
\* no save changes the workload_name or the deployment_id of a stored record.
C23_OwnerNeverChanges ==
    /\ [](\A p \in Records : p = StatePath(files[p].doc.deployment_id))
    /\ [][\A p \in Records :
             p \in DOMAIN files'
                => /\ files'[p].doc.workload_name = files[p].doc.workload_name
                   /\ files'[p].doc.deployment_id = files[p].doc.deployment_id]_vars

\* =========================================================================
\* Registry lookups and the Deployment Locator:
\* workloads/registry.py, cli/lifecycle.py
\* =========================================================================

\* The names workloads are registered under, and the deployment ids resolved.
WorkloadNames == {"w1", "w2"}
Deployments == {"D1", "D2"}

\* What workload.get_status(d) does: returns a state, raises
\* DeploymentNotFoundError, or raises anything else.
Answers == {"found", "notfound", "error"}

InRegistry(reg, name) == \E i \in 1..Len(reg) : reg[i] = name

\* The loop of discover_workloads from entry point i on: an entry point that loads
\* a WorkloadBase subclass is assigned into _workloads under its name (a new key
\* goes last, a known key keeps its place); one that raises, or loads something
\* else, is skipped.
\* A loop that gives up at the first plugin whose load raises.
RECURSIVE DiscoverFromUntilError(_, _, _)
DiscoverFromUntilError(reg, eps, i) ==
    IF i > Len(eps) \/ eps[i].kind = "raises" THEN reg
    ELSE DiscoverFromUntilError(
            IF eps[i].kind = "workload" /\ ~InRegistry(reg, eps[i].name)
            THEN Append(reg, eps[i].name)
            ELSE reg,
            eps, i + 1)

RECURSIVE DiscoverFrom(_, _, _)
DiscoverFrom(reg, eps, i) ==
    IF i > Len(eps) THEN reg
    ELSE DiscoverFrom(IF eps[i].kind = "workload" /\ ~InRegistry(reg, eps[i].name)
                      THEN Append(reg, eps[i].name)
                      ELSE reg,
                      eps, i + 1)

\* A discovery that builds the dict anew from the entry points.
DiscoverWorkloadsAfresh(reg, eps) == DiscoverFrom(<<>>, eps, 1)

\* WorkloadRegistry.discover_workloads
DiscoverWorkloads(reg, eps) == DiscoverFrom(reg, eps, 1)

\* A lookup that runs discover_workloads on every call.
LazyDiscoverAlways(reg, eps) == DiscoverWorkloads(reg, eps)

\* "if not self._workloads: self.discover_workloads()", the first statement of
\* get_workload and of list_workloads.
LazyDiscover(reg, eps) == IF reg = <<>> THEN DiscoverWorkloads(reg, eps) ELSE reg

\* A stale entry that is left where it is.
EvictNothing(c, d) == c

\* The workload classes plugins and callers bring, and the class attribute "name"
\* each declares; "Tm" is the class of the package that install calls install.
\* "Tabs" is an abstract intermediary: a subclass of WorkloadBase with ABC among
\* its bases, which keeps the name "base" and cannot be instantiated.
ConcreteClasses == {"T1", "T2"}
WorkloadClasses == ConcreteClasses \cup {"Tabs"}
DeclaredName(cls) ==
    IF cls = "T1" THEN "w1" ELSE IF cls = "T2" THEN "w2"
    ELSE IF cls = "Tabs" THEN "base" ELSE "m1"

NoClasses == [n \in {} |-> ""]

\* "self._workloads[ep.name] = workload_class": the value side of the loop of
\* discover_workloads; a key that is already there takes the class loaded last.
RECURSIVE DiscoverClassesFrom(_, _, _)
DiscoverClassesFrom(cl, eps, i) ==
    IF i > Len(eps) THEN cl
    ELSE DiscoverClassesFrom(
            IF eps[i].kind = "workload"
            THEN [n \in DOMAIN cl \cup {eps[i].name} |->
                     IF n = eps[i].name THEN eps[i].cls ELSE cl[n]]
            ELSE cl,
            eps, i + 1)

DiscoverClasses(cl, eps) == DiscoverClassesFrom(cl, eps, 1)

\* The value side of LazyDiscover.
LazyDiscoverClasses(reg, cl, eps) == IF reg = <<>> THEN DiscoverClasses(cl, eps) ELSE cl

\* del _deployment_index[deployment_id]
Evict(c, d) == [k \in DOMAIN c \ {d} |-> c[k]]

\* A scan that does not record what it found.
CacheOnHitForgotten(c, d, name) == c

\* _deployment_index[deployment_id] = name
CacheOnHit(c, d, name) == [k \in DOMAIN c \cup {d} |-> IF k = d THEN name ELSE c[k]]

NoReport == [by |-> "", id |-> ""]

\* A Locator whose successful resolve keeps no cache entry but the one of its id.
FoundAlone(out, name, c, queries) ==
    [out |-> out, name |-> name,
     state |-> IF out = "ok" THEN [by |-> name, id |-> queries[Len(queries)].id]
               ELSE NoReport,
     cache |-> IF out = "ok"
               THEN [k \in DOMAIN c \cap {queries[Len(queries)].id} |-> c[k]]
               ELSE c,
     queries |-> queries]

\* What _find_deployment_async hands back: the workload and its state, or the
\* exception; with the get_status queries it made, in order, and the cache it left.
Found(out, name, c, queries) ==
    [out |-> out, name |-> name,
     state |-> IF out = "ok" THEN [by |-> name, id |-> queries[Len(queries)].id]
               ELSE NoReport,
     cache |-> c, queries |-> queries]

Query(name, d) == [to |-> name, id |-> d]

\* A scan that walks the registered names from the last to the first.
RECURSIVE ScanWorkloadsBackwards(_, _, _, _, _, _)
ScanWorkloadsBackwards(names, i, ans, d, c, queries) ==
    LET j == Len(names) + 1 - i
    IN  IF i > Len(names) THEN Found("notfound", "", c, queries)
        ELSE IF ans[names[j]][d] = "found"
            THEN Found("ok", names[j], CacheOnHit(c, d, names[j]),
                       Append(queries, Query(names[j], d)))
        ELSE IF ans[names[j]][d] = "notfound"
            THEN ScanWorkloadsBackwards(names, i + 1, ans, d, c,
                                        Append(queries, Query(names[j], d)))
        ELSE Found("error", names[j], c, Append(queries, Query(names[j], d)))

\* The scan loop of _find_deployment_async from the i-th registered name on.
RECURSIVE ScanWorkloads(_, _, _, _, _, _)
ScanWorkloads(names, i, ans, d, c, queries) ==
    IF i > Len(names) THEN Found("notfound", "", c, queries)
    ELSE IF ans[names[i]][d] = "found"
        THEN Found("ok", names[i], CacheOnHit(c, d, names[i]),
                   Append(queries, Query(names[i], d)))
    ELSE IF ans[names[i]][d] = "notfound"
        THEN ScanWorkloads(names, i + 1, ans, d, c, Append(queries, Query(names[i], d)))
    ELSE Found("error", names[i], c, Append(queries, Query(names[i], d)))

\* A cached workload that is believed without being asked.
CachedStatusTrusted(ans, name, d) == "found"

\* "await workload.get_status(deployment_id)" on the cached workload
CachedStatus(ans, name, d) == ans[name][d]

\* A Locator that drops the cache entry of a workload whose get_status failed.
FindDeploymentEvictingOnError(reg, eps, ans, c, d) ==
    LET hit     == d \in DOMAIN c
        cached  == IF hit THEN c[d] ELSE ""
        reg1    == IF hit THEN LazyDiscover(reg, eps) ELSE reg
        present == hit /\ InRegistry(reg1, cached)
        a       == IF present THEN CachedStatus(ans, cached, d) ELSE "skipped"
        first   == IF present THEN <<Query(cached, d)>> ELSE <<>>
    IN  IF a = "found"
            THEN Found("ok", cached, c, first) @@
                 [registry |-> reg1, evicted |-> FALSE, scanned |-> FALSE]
        ELSE IF a = "error"
            THEN Found("error", cached, Evict(c, d), first) @@
                 [registry |-> reg1, evicted |-> FALSE, scanned |-> FALSE]
        ELSE LET c1   == IF a = "notfound" THEN Evict(c, d) ELSE c
                 reg2 == LazyDiscover(reg1, eps)
             IN  ScanWorkloads(reg2, 1, ans, d, c1, first) @@
                 [registry |-> reg2, evicted |-> (a = "notfound"), scanned |-> TRUE]

\* _find_deployment_async(registry, d): the cached workload first, then the scan.
FindDeployment(reg, eps, ans, c, d) ==
    LET hit     == d \in DOMAIN c
        cached  == IF hit THEN c[d] ELSE ""
        reg1    == IF hit THEN LazyDiscover(reg, eps) ELSE reg
        present == hit /\ InRegistry(reg1, cached)
        a       == IF present THEN CachedStatus(ans, cached, d) ELSE "skipped"
        first   == IF present THEN <<Query(cached, d)>> ELSE <<>>
    IN  IF a = "found"
            THEN Found("ok", cached, c, first) @@
                 [registry |-> reg1, evicted |-> FALSE, scanned |-> FALSE]
        ELSE IF a = "error"
            THEN Found("error", cached, c, first) @@
                 [registry |-> reg1, evicted |-> FALSE, scanned |-> FALSE]
        ELSE LET c1   == IF a = "notfound" THEN Evict(c, d) ELSE c
                 reg2 == LazyDiscover(reg1, eps)
             IN  ScanWorkloads(reg2, 1, ans, d, c1, first) @@
                 [registry |-> reg2, evicted |-> (a = "notfound"), scanned |-> TRUE]

NoRegCall ==
    [op |-> "none", name |-> "", cls |-> "", res |-> <<>>, prev |-> "",
     before |-> <<>>, read |-> FALSE]

NoResolve ==
    [op |-> "none", id |-> "", out |-> "", name |-> "", state |-> NoReport,
     queries |-> <<>>, evicted |-> FALSE, scanned |-> FALSE,
     cacheBefore |-> [k \in {} |-> ""], after |-> ""]

\* The entry points installed when the Locator runs: one workload, one plugin whose
\* load raises.
LocatorEntryPoints ==
    <<[name |-> "w2", kind |-> "workload", cls |-> "T2"],
      [name |-> "w9", kind |-> "raises", cls |-> ""]>>

LocatorInit ==
    /\ registry = <<>>
    /\ registered = {}
    /\ classes = NoClasses
    /\ platform = NoneVal
    /\ regLast = NoRegCall
    /\ entryPoints = LocatorEntryPoints
    /\ answers \in [WorkloadNames -> [Deployments -> Answers]]
    /\ cache = [k \in {} |-> ""]
    /\ locLast = NoResolve

\* _find_deployment_async(registry, d), as status, logs, stop, start and cleanup
\* call it.
Resolve(d) ==
    LET r == FindDeployment(registry, entryPoints, answers, cache, d)
    IN  /\ registry' = r.registry
        /\ classes' = LazyDiscoverClasses(registry, classes, entryPoints)
        /\ cache' = r.cache
        /\ locLast' = [op |-> "resolve", id |-> d, out |-> r.out, name |-> r.name,
                       state |-> r.state, queries |-> r.queries,
                       evicted |-> r.evicted, scanned |-> r.scanned,
                       cacheBefore |-> cache,
                       after |-> IF locLast.op = "resolve" /\ locLast.out = "ok"
                                 THEN locLast.id ELSE ""]
        /\ UNCHANGED <<registered, platform, regLast, entryPoints, answers>>
        /\ UNCHANGED <<storeVars, instVars, cliVars>>

\* WorkloadRegistry.register_workload(name, cls)
RegisterWorkload(reg, name) == IF InRegistry(reg, name) THEN reg ELSE Append(reg, name)

\* "self._workloads[name] = workload_class", the value side
RegisterClass(cl, name, cls) ==
    [n \in DOMAIN cl \cup {name} |-> IF n = name THEN cls ELSE cl[n]]

\* The class a caller registers under the name that class declares.
ClassNamed(name) == CHOOSE cls \in ConcreteClasses : DeclaredName(cls) = name

Register(name, cls) ==
    /\ registry' = RegisterWorkload(registry, name)
    /\ registered' = registered \cup {name}
    /\ classes' = RegisterClass(classes, name, cls)
    /\ regLast' = [NoRegCall EXCEPT !.op = "register", !.name = name, !.cls = cls]
    /\ locLast' = [NoResolve EXCEPT !.op = "register"]
    /\ UNCHANGED <<platform, entryPoints, answers, cache>>
    /\ UNCHANGED <<storeVars, instVars, cliVars>>

\* The caller hands the Locator a new, empty WorkloadRegistry(); the module-level
\* cache stays.
NewRegistry ==
    /\ registry # <<>>
    /\ registry' = <<>>
    /\ registered' = {}
    /\ classes' = NoClasses
    /\ regLast' = [NoRegCall EXCEPT !.op = "new_registry"]
    /\ locLast' = [NoResolve EXCEPT !.op = "new_registry"]
    /\ UNCHANGED <<platform, entryPoints, answers, cache>>
    /\ UNCHANGED <<storeVars, instVars, cliVars>>

\* A workload's deployments change: d is deployed, cleaned up, or its backend
\* starts or stops failing.
SetAnswer(name, d, a) ==
    /\ answers[name][d] # a
    /\ answers' = [answers EXCEPT ![name][d] = a]
    /\ locLast' = [NoResolve EXCEPT !.op = "environment"]
    /\ UNCHANGED <<registry, registered, classes, platform, regLast, entryPoints, cache>>
    /\ UNCHANGED <<storeVars, instVars, cliVars>>

LocatorNext ==
    \/ \E d \in Deployments : Resolve(d)
    \/ \E name \in WorkloadNames : Register(name, ClassNamed(name))
    \/ NewRegistry
    \/ \E name \in WorkloadNames, d \in Deployments, a \in Answers : SetAnswer(name, d, a)

\* =========================================================================
\* WorkloadRegistry: register, get, list, discover (workloads/registry.py)
\* =========================================================================

\* The installed plugins: an entry point loads a workload class, raises, or loads
\* something that is not a workload class.
Plugins ==
    {[name |-> "w1", kind |-> "workload", cls |-> "T1"],
     [name |-> "w1", kind |-> "workload", cls |-> "T2"],
     [name |-> "w2", kind |-> "workload", cls |-> "T2"],
     [name |-> "w2", kind |-> "raises", cls |-> ""],
     [name |-> "w2", kind |-> "other", cls |-> ""]}
PluginLists == UNION {[1..k -> Plugins] : k \in 0..MaxPlugins}

\* The platform handed to WorkloadRegistry(platform=...).
Platforms == {NoneVal, "P1"}

\* The names get_workload is asked for; "w3" is no plugin's name.
GetNames == WorkloadNames \cup {"w3"}

\* "entry_points(group=...)": the installed plugins, or, when reading the metadata
\* raises, nothing (the outer except of discover_workloads).
ReadEntryPoints(eps, ok) == IF ok THEN eps ELSE <<>>

NoInstance == [kind |-> "None", cls |-> "", name |-> "", platform |-> ""]

\* A workload that is built without the registry's platform.
InstantiateWithoutPlatform(cls, plat) ==
    IF cls \notin ConcreteClasses
    THEN [kind |-> "TypeError", cls |-> cls, name |-> "", platform |-> ""]
    ELSE [kind |-> "instance", cls |-> cls, name |-> DeclaredName(cls),
          platform |-> NoneVal]

\* "workload_class(platform=self._platform)": WorkloadBase.__init__ keeps the
\* platform, the instance's name is the class attribute; an abstract class raises
\* TypeError.
Instantiate(cls, plat) ==
    IF cls \notin ConcreteClasses
    THEN [kind |-> "TypeError", cls |-> cls, name |-> "", platform |-> ""]
    ELSE [kind |-> "instance", cls |-> cls, name |-> DeclaredName(cls),
          platform |-> plat]

\* A lookup by subscript, which raises for a missing name.
GetWorkloadBySubscript(reg, cl, eps, plat, name) ==
    LET cl1 == LazyDiscoverClasses(reg, cl, eps)
    IN  [registry |-> LazyDiscover(reg, eps), classes |-> cl1,
         res |-> IF name \in DOMAIN cl1 THEN Instantiate(cl1[name], plat)
                 ELSE [NoInstance EXCEPT !.kind = "KeyError"]]

\* WorkloadRegistry.get_workload(name)
GetWorkload(reg, cl, eps, plat, name) ==
    LET cl1 == LazyDiscoverClasses(reg, cl, eps)
    IN  [registry |-> LazyDiscover(reg, eps), classes |-> cl1,
         res |-> IF name \in DOMAIN cl1 THEN Instantiate(cl1[name], plat)
                 ELSE NoInstance]

\* The class that the call just before this one registered under name, if that
\* call was register_workload(name, cls).
JustRegistered(name) ==
    IF regLast.op = "register" /\ regLast.name = name THEN regLast.cls ELSE ""

RegistryInit ==
    /\ registry = <<>>
    /\ registered = {}
    /\ classes = NoClasses
    /\ platform \in Platforms
    /\ regLast = NoRegCall
    /\ entryPoints \in PluginLists
    /\ answers = [n \in WorkloadNames |-> [d \in Deployments |-> "notfound"]]
    /\ cache = [k \in {} |-> ""]
    /\ locLast = NoResolve

\* registry.get_workload(name); whether the entry points can be read is drawn
\* only when the call reads them.
Get(name, ok) ==
    LET r == GetWorkload(registry, classes, ReadEntryPoints(entryPoints, ok),
                         platform, name)
    IN  /\ registry # <<>> => ok
        /\ registry' = r.registry
        /\ classes' = r.classes
        /\ regLast' = [op |-> "get", name |-> name, cls |-> "", res |-> <<r.res>>,
                       prev |-> JustRegistered(name),
                       before |-> registry, read |-> ok]
        /\ UNCHANGED <<registered, platform, entryPoints, answers, cache, locLast>>
        /\ UNCHANGED <<storeVars, instVars, cliVars>>

\* registry.list_workloads()
ListWorkloads(ok) ==
    LET eps == ReadEntryPoints(entryPoints, ok)
    IN  /\ registry # <<>> => ok
        /\ registry' = LazyDiscover(registry, eps)
        /\ classes' = LazyDiscoverClasses(registry, classes, eps)
        /\ regLast' = [op |-> "list", name |-> "", cls |-> "",
                       res |-> <<LazyDiscover(registry, eps)>>, prev |-> "",
                       before |-> registry, read |-> ok]
        /\ UNCHANGED <<registered, platform, entryPoints, answers, cache, locLast>>
        /\ UNCHANGED <<storeVars, instVars, cliVars>>

\* registry.discover_workloads()
Discover(ok) ==
    LET eps == ReadEntryPoints(entryPoints, ok)
    IN  /\ registry' = DiscoverWorkloads(registry, eps)
        /\ classes' = DiscoverClasses(classes, eps)
        /\ regLast' = [op |-> "discover", name |-> "", cls |-> IF ok THEN "read" ELSE "",
                       res |-> <<registry, DiscoverWorkloads(registry, eps)>>,
                       prev |-> "", before |-> <<>>, read |-> ok]
        /\ UNCHANGED <<registered, platform, entryPoints, answers, cache, locLast>>
        /\ UNCHANGED <<storeVars, instVars, cliVars>>

RegistryNext ==
    \/ \E name \in WorkloadNames, cls \in WorkloadClasses : Register(name, cls)
    \/ \E name \in GetNames, ok \in BOOLEAN : Get(name, ok)
    \/ \E ok \in BOOLEAN : ListWorkloads(ok)
    \/ \E ok \in BOOLEAN : Discover(ok)
    \/ NewRegistry

\* =========================================================================
\* Registry.install_from_git: workloads/registry.py
\* =========================================================================

\* A manifest's package.source is the sequence of its segments between "/":
\* "../sub" is <<"..", "sub">>, "/sub" is <<"", "sub">>, "https://sub" is
\* <<"https:", "", "sub">>.
Schemes == {"https:", "file:"}
Segments == {"", "..", "sub", "link"} \cup Schemes
Sources == UNION {[1..k -> Segments] : k \in 1..MaxSourceLen}

\* tempfile.TemporaryDirectory(): the clone root, an absolute path already free
\* of symbolic links.
CloneRoot == <<"tmp", "clone">>

\* What the clone can hold at "link": nothing, a symbolic link to /etc, or a
\* symbolic link to the clone's own "sub".
Links == {"none", "outside", "inside"}

LinkTarget(path, link) ==
    IF path = Append(CloneRoot, "link") /\ link = "outside" THEN <<"etc">>
    ELSE IF path = Append(CloneRoot, "link") /\ link = "inside"
        THEN Append(CloneRoot, "sub")
    ELSE path

\* Path(tmpdir) / source_raw: a source that starts with "/" replaces the left side.
JoinPath(base, raw) ==
    IF Len(raw) >= 2 /\ raw[1] = "" THEN raw ELSE base \o raw

\* Path.resolve(): empty and "." segments drop out, ".." steps up from the path
\* resolved so far, and a segment that is a symbolic link is replaced by its target.
RECURSIVE ResolveFrom(_, _, _, _)
ResolveFrom(done, parts, i, link) ==
    IF i > Len(parts) THEN done
    ELSE IF parts[i] \in {"", "."} THEN ResolveFrom(done, parts, i + 1, link)
    ELSE IF parts[i] = ".."
        THEN ResolveFrom(IF done = <<>> THEN done ELSE SubSeq(done, 1, Len(done) - 1),
                         parts, i + 1, link)
    ELSE ResolveFrom(LinkTarget(Append(done, parts[i]), link), parts, i + 1, link)

ResolvePath(parts, link) == ResolveFrom(<<>>, parts, 1, link)

\* source_path.is_relative_to(tmpdir_resolved)
IsRelativeTo(path, root) ==
    Len(path) >= Len(root) /\ SubSeq(path, 1, Len(root)) = root

\* A test that lets nothing but the clone root itself through.
EscapesCloneUnlessRoot(raw, link) == raw # <<".">>

\* "not source_path.is_relative_to(tmpdir_resolved)"
EscapesClone(raw, link) ==
    ~IsRelativeTo(ResolvePath(JoinPath(CloneRoot, raw), link),
                  ResolvePath(CloneRoot, link))

\* A URL test that knows the web schemes only.
LooksLikeUrlWebOnly(raw) == raw[1] \in {"http:", "https:"}

\* '"://" in source_raw or source_raw.startswith(("http:", "https:", "ftp:"))'
LooksLikeUrl(raw) ==
    \/ \E i \in 1..(Len(raw) - 2) : raw[i] \in Schemes /\ raw[i + 1] = ""
    \/ raw[1] \in {"http:", "https:", "ftp:"}

Step(ev, path) == [ev |-> ev, path |-> path]

\* The manifests a directory can hold: no workload.yaml; one that is not YAML; an
\* empty one, which safe_load reads as None; one that WorkloadManifest refuses; one
\* without a package section; one whose package names a source.
NoSource == <<"-">>
\* manifest.package.get("source", ".")
DefaultSource == <<".">>
Manifests ==
    {[kind |-> k, source |-> NoSource] :
        k \in {"missing", "malformed", "empty", "invalid", "nopackage"}}
    \cup {[kind |-> "package", source |-> raw] : raw \in Sources \cup {DefaultSource}}

ManifestName == "m1"

Raised(kind, msg, steps) ==
    [ok |-> FALSE, err |-> kind, msg |-> msg, name |-> "", steps |-> steps,
     installed |-> FALSE]
Returned(name, steps, installed) ==
    [ok |-> TRUE, err |-> "", msg |-> "", name |-> name, steps |-> steps,
     installed |-> installed]

\* WorkloadRegistry.load_manifest(path): the exception it raises, or none.
LoadManifest(manifest) ==
    IF manifest.kind = "missing"
        THEN [ok |-> FALSE, err |-> "FileNotFoundError", msg |-> "no workload.yaml"]
    ELSE IF manifest.kind = "malformed"
        THEN [ok |-> FALSE, err |-> "YAMLError", msg |-> "not YAML"]
    ELSE IF manifest.kind = "empty"
        THEN [ok |-> FALSE, err |-> "TypeError", msg |-> "argument after ** is None"]
    ELSE IF manifest.kind = "invalid"
        THEN [ok |-> FALSE, err |-> "ValidationError", msg |-> "invalid manifest"]
    ELSE [ok |-> TRUE, err |-> "", msg |-> ""]

\* A clone directory that an exception leaves behind.
InstallInCloneLeaky(clone, manifest, link, pip) ==
    LET cloned == <<Step("clone", CloneRoot)>>
        gone   == <<Step("cleanup", CloneRoot)>>
        read   == Append(cloned, Step("load_manifest", CloneRoot))
        target == ResolvePath(JoinPath(CloneRoot, manifest.source), link)
        ran    == Append(read, Step("pip", target))
        m      == LoadManifest(manifest)
    IN  IF clone = "timeout" THEN Raised("ValueError", "clone timed out", cloned)
        ELSE IF clone = "fail" THEN Raised("ValueError", "clone failed", cloned)
        ELSE IF ~m.ok THEN Raised(m.err, m.msg, read)
        ELSE IF manifest.kind = "nopackage"
            THEN Returned(ManifestName, read \o gone, FALSE)
        ELSE IF EscapesClone(manifest.source, link)
            THEN Raised("ValueError", "escapes the clone directory", read)
        ELSE IF LooksLikeUrl(manifest.source)
            THEN Raised("ValueError", "not a local path", read)
        ELSE IF pip = "timeout" THEN Raised("ValueError", "pip timed out", ran)
        ELSE IF pip = "fail" THEN Raised("ValueError", "pip failed", ran)
        ELSE Returned(ManifestName, ran \o gone, TRUE)

\* install_from_git up to the end of the "with tempfile.TemporaryDirectory()"
\* block: git clone, load_manifest, the two tests of package.source, pip install;
\* leaving the block, by return or by exception, deletes the directory.
InstallInClone(clone, manifest, link, pip) ==
    LET cloned == <<Step("clone", CloneRoot)>>
        gone   == <<Step("cleanup", CloneRoot)>>
        read   == Append(cloned, Step("load_manifest", CloneRoot))
        target == ResolvePath(JoinPath(CloneRoot, manifest.source), link)
        ran    == Append(read, Step("pip", target))
        m      == LoadManifest(manifest)
    IN  IF clone = "timeout" THEN Raised("ValueError", "clone timed out", cloned \o gone)
        ELSE IF clone = "fail" THEN Raised("ValueError", "clone failed", cloned \o gone)
        ELSE IF ~m.ok THEN Raised(m.err, m.msg, read \o gone)
        ELSE IF manifest.kind = "nopackage"
            THEN Returned(ManifestName, read \o gone, FALSE)
        ELSE IF EscapesClone(manifest.source, link)
            THEN Raised("ValueError", "escapes the clone directory", read \o gone)
        ELSE IF LooksLikeUrl(manifest.source)
            THEN Raised("ValueError", "not a local path", read \o gone)
        ELSE IF pip = "timeout" THEN Raised("ValueError", "pip timed out", ran \o gone)
        ELSE IF pip = "fail" THEN Raised("ValueError", "pip failed", ran \o gone)
        ELSE Returned(ManifestName, ran \o gone, TRUE)

\* The directory install_from_path is pointed at, already resolved, and what is
\* found there: a directory, or something is_dir() is False of (a file, nothing).
LocalPath == <<"home", "wl">>
PathKinds == {"dir", "file"}

\* An install_from_path that runs pip before it reads the manifest.
InstallAtPathPipFirst(dir, manifest, pip) ==
    LET ran  == <<Step("pip", LocalPath)>>
        read == Append(ran, Step("load_manifest", LocalPath))
        m    == LoadManifest(manifest)
    IN  IF dir # "dir" THEN Raised("ValueError", "not a directory", <<>>)
        ELSE IF pip = "timeout" THEN Raised("ValueError", "pip timed out", ran)
        ELSE IF pip = "fail" THEN Raised("ValueError", "pip failed", ran)
        ELSE IF ~m.ok THEN Raised(m.err, m.msg, read)
        ELSE Returned(ManifestName, read, TRUE)

\* install_from_path up to its "# Re-discover": the is_dir test, load_manifest,
\* pip install -e.
InstallAtPath(dir, manifest, pip) ==
    LET read == <<Step("load_manifest", LocalPath)>>
        ran  == Append(read, Step("pip", LocalPath))
        m    == LoadManifest(manifest)
    IN  IF dir # "dir" THEN Raised("ValueError", "not a directory", <<>>)
        ELSE IF ~m.ok THEN Raised(m.err, m.msg, read)
        ELSE IF pip = "timeout" THEN Raised("ValueError", "pip timed out", ran)
        ELSE IF pip = "fail" THEN Raised("ValueError", "pip failed", ran)
        ELSE Returned(ManifestName, ran, TRUE)

\* A finished pip install leaves the package's entry point in the environment.
AddEntryPoint(eps, name) ==
    IF \E i \in 1..Len(eps) : eps[i].name = name THEN eps
    ELSE Append(eps, [name |-> name, kind |-> "workload", cls |-> "Tm"])

\* subprocess.run kills pip when the timeout expires; killed after it wrote the
\* package's metadata (left = TRUE) it leaves the entry point behind, killed
\* before (left = FALSE) it leaves nothing.
PipKilled(r) == ~r.ok /\ r.msg = "pip timed out"

EntryPointsAfter(eps, r, left) ==
    IF r.installed \/ (PipKilled(r) /\ left) THEN AddEntryPoint(eps, ManifestName)
    ELSE eps

\* A discovery that runs whether or not the install raised.
DiscoverRegardless(r, reg, eps) == DiscoverWorkloads(reg, eps)

\* "self.discover_workloads()", the statement after the install steps, reached
\* only when none of them raised: the keys of _workloads afterwards.
DiscoverAfterInstall(r, reg, eps) == IF r.ok THEN DiscoverWorkloads(reg, eps) ELSE reg

\* The steps of the whole call: discover_workloads comes last, on success.
WithDiscover(r) ==
    IF r.ok THEN [r EXCEPT !.steps = Append(@, Step("discover", <<>>))] ELSE r

NoInstall ==
    [op |-> "none", clone |-> "", dir |-> "", pip |-> "", res |-> Raised("", "", <<>>),
     before |-> <<<<>>, NoClasses>>]

\* Whether the call got as far as pip install.
ReachedPip(r) == \E i \in 1..Len(r.steps) : r.steps[i].ev = "pip"

\* The repositories and directories the install calls are pointed at; a symbolic
\* link at "link" is told apart only where the manifest's source names it.
Repos ==
    {rp \in [manifest : Manifests, link : Links] :
        rp.link # "none" =>
            \E i \in 1..Len(rp.manifest.source) : rp.manifest.source[i] = "link"}
NoRepo == [manifest |-> [kind |-> "missing", source |-> NoSource], link |-> "none"]

InstallInit ==
    /\ registry = <<>>
    /\ registered = {}
    /\ classes = NoClasses
    /\ platform = NoneVal
    /\ regLast = NoRegCall
    /\ entryPoints = <<>>
    /\ answers = [n \in WorkloadNames |-> [d \in Deployments |-> "notfound"]]
    /\ cache = [k \in {} |-> ""]
    /\ locLast = NoResolve
    /\ repo \in Repos
    /\ instLast = NoInstall
    /\ installedOk = FALSE

\* WorkloadRegistry.install_from_git(repo_url): the block above, then
\* discover_workloads() and the manifest's name, when the block did not raise.
InstallFromGit(clone, pip, left) ==
    LET r == InstallInClone(clone, repo.manifest, repo.link, pip)
        eps == EntryPointsAfter(entryPoints, r, left)
    IN  /\ left => pip = "timeout"
        /\ pip # "ok" => ReachedPip(r)
        /\ entryPoints' = eps
        /\ registry' = DiscoverAfterInstall(r, registry, eps)
        /\ classes' = IF r.ok THEN DiscoverClasses(classes, eps) ELSE classes
        /\ instLast' = [op |-> "install_from_git", clone |-> clone, dir |-> "",
                        pip |-> pip, res |-> WithDiscover(r),
                        before |-> <<registry, classes>>]
        /\ installedOk' = (installedOk \/ r.installed)
        /\ UNCHANGED <<registered, platform, regLast, answers, cache, locLast, repo>>
        /\ UNCHANGED <<storeVars, cliVars>>

\* WorkloadRegistry.install_from_path(path)
InstallFromPath(dir, pip, left) ==
    LET r == InstallAtPath(dir, repo.manifest, pip)
        eps == EntryPointsAfter(entryPoints, r, left)
    IN  /\ left => pip = "timeout"
        /\ pip # "ok" => ReachedPip(r)
        /\ entryPoints' = eps
        /\ registry' = DiscoverAfterInstall(r, registry, eps)
        /\ classes' = IF r.ok THEN DiscoverClasses(classes, eps) ELSE classes
        /\ instLast' = [op |-> "install_from_path", clone |-> "", dir |-> dir,
                        pip |-> pip, res |-> WithDiscover(r),
                        before |-> <<registry, classes>>]
        /\ installedOk' = (installedOk \/ r.installed)
        /\ UNCHANGED <<registered, platform, regLast, answers, cache, locLast, repo>>
        /\ UNCHANGED <<storeVars, cliVars>>

\* A later discover_workloads(), as get_registry and the lazy lookups make it.
Rediscover ==
    /\ instLast.op # "discover"
    /\ registry' = DiscoverWorkloads(registry, entryPoints)
    /\ classes' = DiscoverClasses(classes, entryPoints)
    /\ instLast' = [NoInstall EXCEPT !.op = "discover", !.before = <<registry, classes>>]
    /\ UNCHANGED <<registered, platform, regLast, entryPoints, answers, cache,
                   locLast, repo, installedOk>>
    /\ UNCHANGED <<storeVars, cliVars>>

Outcomes == {"ok", "fail", "timeout"}

InstallNext ==
    \/ \E clone \in Outcomes, pip \in Outcomes, left \in BOOLEAN :
          InstallFromGit(clone, pip, left)
    \/ \E dir \in PathKinds, pip \in Outcomes, left \in BOOLEAN :
          InstallFromPath(dir, pip, left)
    \/ Rediscover

\* ---------------------------------------------- one registry, every operation
\* The directory that the install calls of these runs are pointed at holds a
\* manifest with a package in the directory itself.
PackageRepo == [manifest |-> [kind |-> "package", source |-> DefaultSource],
                link |-> "none"]

\* One registry on which callers register, discover, look up, list and install,
\* in any order; one plugin is installed from the start.
NamesInit ==
    /\ registry = <<>>
    /\ registered = {}
    /\ classes = NoClasses
    /\ platform = NoneVal
    /\ regLast = NoRegCall
    /\ entryPoints \in {<<>>, <<[name |-> "w2", kind |-> "workload", cls |-> "T2"]>>}
    /\ answers = [n \in WorkloadNames |-> [d \in Deployments |-> "notfound"]]
    /\ cache = [k \in {} |-> ""]
    /\ locLast = NoResolve
    /\ repo = PackageRepo
    /\ instLast = NoInstall
    /\ installedOk = FALSE

NamesNext ==
    \/ \E name \in WorkloadNames : Register(name, ClassNamed(name))
    \/ \E name \in GetNames, ok \in BOOLEAN : Get(name, ok)
    \/ \E ok \in BOOLEAN : ListWorkloads(ok)
    \/ \E ok \in BOOLEAN : Discover(ok)
    \/ \E clone \in Outcomes, pip \in Outcomes : InstallFromGit(clone, pip, FALSE)
    \/ \E dir \in PathKinds, pip \in Outcomes : InstallFromPath(dir, pip, FALSE)

\* =========================================================================
\* WorkloadBase.__init_subclass__: workloads/base.py
\* =========================================================================

\* A class, as far as the contract looks at it: the value of its attribute "name"
\* (its own or the inherited one), whether any abstract method is left
\* unimplemented (complete = none is left), and whether ABC is among its direct
\* bases.
\* "class WorkloadBase(ABC)": name = "base", five abstract methods.
WorkloadBaseClass == [name |-> "base", complete |-> FALSE, abc |-> TRUE]

\* What a class body assigns to "name": nothing (""), the placeholder, a name.
BodyNames == {"", "base", "w1"}

\* cls.name, looked up in the class body and then in the parent.
NameAttr(parent, declares) == IF declares = "" THEN parent.name ELSE declares

\* WorkloadBase.__init_subclass__(cls): raises TypeError, or lets the class
\* statement complete.
InitSubclass(abc, name) == IF ~abc /\ name = "base" THEN "TypeError" ELSE "defined"

\* ABCMeta: a class can be instantiated when none of deploy, get_status, stop,
\* cleanup and get_logs is left abstract; ABC among the bases does not matter.
NewWorkload(c) == IF c.complete THEN "instance" ELSE "TypeError"

NoDefinition ==
    [op |-> "none", cls |-> WorkloadBaseClass, parent |-> WorkloadBaseClass, res |-> ""]

ClassesInit ==
    /\ defined = {}
    /\ defLast = NoDefinition

\* "class C(parent):" or "class C(parent, ABC):", with or without a name in its
\* body, implementing the methods still abstract or not.
DefineClass(parent, abc, declares, implements) ==
    LET c == [name |-> NameAttr(parent, declares),
              complete |-> (parent.complete \/ implements),
              abc |-> abc]
        res == InitSubclass(abc, c.name)
    IN  /\ parent \in defined \cup {WorkloadBaseClass}
        /\ res = "defined" => (c \in defined \/ Cardinality(defined) < MaxClasses)
        /\ defined' = IF res = "defined" THEN defined \cup {c} ELSE defined
        /\ defLast' = [op |-> "class", cls |-> c, parent |-> parent, res |-> res]
        /\ UNCHANGED <<deployed, cliLast>>
        /\ UNCHANGED <<storeVars, locVars, instVars>>

\* "C(platform=...)" for a class whose statement was accepted.
New(c) ==
    /\ c \in defined
    /\ defLast' = [op |-> "new", cls |-> c, parent |-> c, res |-> NewWorkload(c)]
    /\ UNCHANGED <<defined, deployed, cliLast>>
    /\ UNCHANGED <<storeVars, locVars, instVars>>

ClassesNext ==
    \/ \E parent \in defined \cup {WorkloadBaseClass}, abc \in BOOLEAN,
          declares \in BodyNames, implements \in BOOLEAN :
          DefineClass(parent, abc, declares, implements)
    \/ \E c \in defined : New(c)

\* =========================================================================
\* The deploy and stop commands: cli/deploy.py, cli/lifecycle.py
\* =========================================================================

\* What a workload holds about its deployments: deployment id -> the workload
\* that deployed it and the status its get_status reports.
NoDeployments == [d \in {} |-> [by |-> "", status |-> ""]]

\* What each registered workload's get_status does for each id: the workload that
\* deployed it returns its state, the others raise DeploymentNotFoundError.
AnswersOf(dep) ==
    [n \in WorkloadNames |->
        [d \in Deployments |->
            IF d \in DOMAIN dep /\ dep[d].by = n THEN "found" ELSE "notfound"]]

\* What validate_config can return: no problem, one, two.
Problems == {<<>>, <<"p1">>, <<"p1", "p2">>}

\* A finished command: the workload methods it awaited, in order, what it echoed,
\* and the exit code of the process.
Ran(calls, out, code) == [calls |-> calls, out |-> out, exit |-> code]

Called(method, calls) == \E i \in 1..Len(calls) : calls[i] = method

\* A deploy command that goes on to deploy whatever validate_config returned.
DeployCommandUnvalidated(wl, args, errors, yes, confirm, outcome) ==
    IF wl.kind # "instance" THEN Ran(<<>>, <<"not found">>, 1)
    ELSE IF args = "usage" THEN Ran(<<>>, <<"usage">>, 2)
    ELSE IF ~yes /\ ~confirm THEN Ran(<<"validate_config">>, <<"Aborted.">>, 0)
    ELSE IF outcome # "id"
        THEN Ran(<<"validate_config", "deploy">>, <<"Error">>, 1)
    ELSE Ran(<<"validate_config", "deploy">>, <<"Deployment started">>, 0)

\* The deploy command from the workload lookup on: the lookup, the parsing of
\* --config and --tag (a UsageError exits with 2), validate_config and
\* "if errors:", the confirmation, and deploy with its two except clauses.
DeployCommand(wl, args, errors, yes, confirm, outcome) ==
    IF wl.kind # "instance" THEN Ran(<<>>, <<"not found">>, 1)
    ELSE IF args = "usage" THEN Ran(<<>>, <<"usage">>, 2)
    ELSE IF errors # <<>>
        THEN Ran(<<"validate_config">>, <<"Configuration errors:">> \o errors, 1)
    ELSE IF ~yes /\ ~confirm THEN Ran(<<"validate_config">>, <<"Aborted.">>, 0)
    ELSE IF outcome # "id"
        THEN Ran(<<"validate_config", "deploy">>, <<"Error">>, 1)
    ELSE Ran(<<"validate_config", "deploy">>, <<"Deployment started">>, 0)

\* The get_status calls that the Locator made for the command.
RECURSIVE StatusCalls(_)
StatusCalls(queries) ==
    IF queries = <<>> THEN <<>> ELSE <<"get_status">> \o StatusCalls(Tail(queries))

\* A stop command that does not look at the status.
StopCommandUnchecked(r, status, yes, confirm, result) ==
    IF r.out = "notfound" THEN Ran(StatusCalls(r.queries), <<"not found">>, 1)
    ELSE IF r.out = "error" THEN Ran(StatusCalls(r.queries), <<"Error">>, 1)
    ELSE IF ~yes /\ ~confirm THEN Ran(StatusCalls(r.queries), <<"Aborted.">>, 0)
    ELSE IF result = "True"
        THEN Ran(Append(StatusCalls(r.queries), "stop"), <<"stopped">>, 0)
    ELSE Ran(Append(StatusCalls(r.queries), "stop"), <<"Failed to stop">>, 1)

\* The stop command once _find_deployment_async is done (r): a ClickException or
\* another exception of the Locator ends the command; a status other than
\* running exits with 1; then the confirmation, then "await wl.stop(...)", which
\* returns True or False or raises.
StopCommand(r, status, yes, confirm, result) ==
    IF r.out = "notfound" THEN Ran(StatusCalls(r.queries), <<"not found">>, 1)
    ELSE IF r.out = "error" THEN Ran(StatusCalls(r.queries), <<"Error">>, 1)
    ELSE IF status # "running"
        THEN Ran(StatusCalls(r.queries), <<"Deployment is not running">>, 1)
    ELSE IF ~yes /\ ~confirm THEN Ran(StatusCalls(r.queries), <<"Aborted.">>, 0)
    ELSE IF result = "True"
        THEN Ran(Append(StatusCalls(r.queries), "stop"), <<"stopped">>, 0)
    ELSE Ran(Append(StatusCalls(r.queries), "stop"), <<"Failed to stop">>, 1)

NoCommand ==
    [cmd |-> "none", name |-> "", id |-> "", errors |-> <<>>, status |-> "",
     ran |-> Ran(<<>>, <<>>, 0), before |-> NoDeployments]

\* The driver starts with two workloads registered and nothing deployed.
DriverInit ==
    /\ registry = <<"w1", "w2">>
    /\ registered = {"w1", "w2"}
    /\ classes = [n \in {"w1", "w2"} |-> ClassNamed(n)]
    /\ platform = NoneVal
    /\ regLast = NoRegCall
    /\ entryPoints = <<>>
    /\ answers = AnswersOf(NoDeployments)
    /\ cache = [k \in {} |-> ""]
    /\ locLast = NoResolve
    /\ deployed = NoDeployments
    /\ cliLast = NoCommand

\* "haymaker deploy <name> ...": a deploy that returns registers a new deployment
\* of the workload, pending or running. The confirmation is drawn only when it is
\* asked for, and the outcome of deploy only when deploy is called.
Deploy(name, args, errors, yes, confirm, outcome, d, first) ==
    LET wl == GetWorkload(registry, classes, entryPoints, platform, name).res
        c  == DeployCommand(wl, args, errors, yes, confirm, outcome)
        started == c.calls # <<>> /\ c.calls[Len(c.calls)] = "deploy" /\ c.exit = 0
    IN  /\ d \notin DOMAIN deployed
        /\ yes => ~confirm
        /\ ~started => first = "pending"
        /\ ~Called("deploy", c.calls) => outcome = "id"
        /\ deployed' = IF started
                       THEN [k \in DOMAIN deployed \cup {d} |->
                                IF k = d THEN [by |-> name, status |-> first]
                                ELSE deployed[k]]
                       ELSE deployed
        /\ answers' = AnswersOf(deployed')
        /\ cliLast' = [cmd |-> "deploy", name |-> name, id |-> IF started THEN d ELSE "",
                       errors |-> IF Called("validate_config", c.calls) THEN errors
                                  ELSE <<>>,
                       status |-> "", ran |-> c, before |-> deployed]
        /\ UNCHANGED <<registry, registered, classes, platform, regLast, entryPoints,
                       cache, locLast>>
        /\ UNCHANGED <<defined, defLast>>
        /\ UNCHANGED <<storeVars, instVars>>

\* "haymaker stop <d>": the Locator, then the command; a stop that returns True
\* has made the workload stop the deployment.
Stop(d, yes, confirm, result) ==
    LET r == FindDeployment(registry, entryPoints, answers, cache, d)
        status == IF r.out = "ok" THEN deployed[d].status ELSE ""
        c == StopCommand(r, status, yes, confirm, result)
        stopped == c.calls # <<>> /\ c.calls[Len(c.calls)] = "stop" /\ c.exit = 0
    IN  /\ yes => ~confirm
        /\ ~Called("stop", c.calls) => result = "True"
        /\ registry' = r.registry
        /\ cache' = r.cache
        /\ deployed' = IF stopped THEN [deployed EXCEPT ![d].status = "stopped"]
                       ELSE deployed
        /\ answers' = AnswersOf(deployed')
        /\ cliLast' = [cmd |-> "stop", name |-> r.name, id |-> d, errors |-> <<>>,
                       status |-> status, ran |-> c, before |-> deployed]
        /\ UNCHANGED <<registered, classes, platform, regLast, entryPoints, locLast>>
        /\ UNCHANGED <<defined, defLast>>
        /\ UNCHANGED <<storeVars, instVars>>

\* A deployment moves on by itself: pending to running, running to completed or
\* failed.
Progress(d, s) ==
    /\ d \in DOMAIN deployed
    /\ \/ deployed[d].status = "pending" /\ s = "running"
       \/ deployed[d].status = "running" /\ s \in {"completed", "failed"}
    /\ deployed' = [deployed EXCEPT ![d].status = s]
    /\ cliLast' = [NoCommand EXCEPT !.cmd = "environment"]
    /\ UNCHANGED <<defined, defLast>>
    /\ UNCHANGED <<locVars, storeVars, instVars>>

DriverNext ==
    \/ \E name \in GetNames, args \in {"ok", "usage"}, errors \in Problems,
          yes \in BOOLEAN, confirm \in BOOLEAN,
          outcome \in {"id", "DeploymentError", "Exception"},
          d \in Deployments, first \in {"pending", "running"} :
          Deploy(name, args, errors, yes, confirm, outcome, d, first)
    \/ \E d \in Deployments, yes \in BOOLEAN, confirm \in BOOLEAN,
          result \in {"True", "False"} :
          Stop(d, yes, confirm, result)
    \/ \E d \in Deployments, s \in Statuses : Progress(d, s)

\* ------------------------------------------------------------ what stands still
StoreIdle ==
    /\ files = [p \in {} |-> EmptyText]
    /\ writer = Idle
    /\ lastSaved = [i \in {} |-> NoState]
    /\ everSaved = {}
    /\ overwritten = {}
    /\ storeLast = NoCall
    /\ probe = NoState
    /\ stage = "idle"

LocatorIdle ==
    /\ registry = <<>>
    /\ registered = {}
    /\ classes = NoClasses
    /\ platform = NoneVal
    /\ regLast = NoRegCall
    /\ entryPoints = <<>>
    /\ answers = [n \in WorkloadNames |-> [d \in Deployments |-> "notfound"]]
    /\ cache = [k \in {} |-> ""]
    /\ locLast = NoResolve

InstallIdle == repo = NoRepo /\ instLast = NoInstall /\ installedOk = FALSE

ClassesIdle == defined = {} /\ defLast = NoDefinition

DriverIdle == deployed = NoDeployments /\ cliLast = NoCommand

\* =========================================================================
\* Deployment Locator: properties
\* =========================================================================

\* The workloads of the registry, after the call, that recognize d.
Recognizers(d) == {i \in 1..Len(registry) : answers[registry[i]][d] = "found"}

\* The workloads of the registry, after the call, whose get_status(d) fails with
\* something other than not-found.
Failing(d) == {i \in 1..Len(registry) : answers[registry[i]][d] = "error"}

\* This resolve found a cache entry for its id whose workload is registered.
AskedCached ==
    /\ locLast.op = "resolve"
    /\ locLast.id \in DOMAIN locLast.cacheBefore
    /\ InRegistry(registry, locLast.cacheBefore[locLast.id])

\* This resolve asked the cached workload, which reported not-found.
CachedSaidNotFound ==
    /\ AskedCached
    /\ answers[locLast.cacheBefore[locLast.id]][locLast.id] = "notfound"

\* C7: a resolve(D) that comes right after a successful resolve(D) succeeds from
\* the cache: it makes one get_status query, to the cached workload, and no scan.
C7_SecondResolveUsesCache ==
    (locLast.op = "resolve" /\ locLast.after = locLast.id)
        => /\ locLast.out = "ok"
           /\ ~locLast.scanned
           /\ locLast.id \in DOMAIN locLast.cacheBefore
           /\ locLast.queries = <<Query(locLast.cacheBefore[locLast.id], locLast.id)>>
           /\ locLast.name = locLast.cacheBefore[locLast.id]

\* C7 witness: with w1 registered before w2, D1 was resolved twice in a row and the
\* second resolve asked w2 alone.
C7_Witness ==
    /\ locLast.op = "resolve"
    /\ locLast.after = "D1"
    /\ locLast.id = "D1"
    /\ registry = <<"w1", "w2">>
    /\ locLast.queries = <<Query("w2", "D1")>>

\* C8 as stated: when the cached workload reports not-found, resolve evicts the
\* entry and scans; if no workload recognizes D it fails with not-found and the
\* cache holds no entry for D.
C8_StaleEntryThenNotFound ==
    CachedSaidNotFound
        => /\ locLast.evicted
           /\ locLast.scanned
           /\ Recognizers(locLast.id) = {}
                 => (locLast.out = "notfound" /\ locLast.id \notin DOMAIN cache)

\* C8, amended: when the cached workload reports not-found, resolve evicts the
\* entry and scans the registered workloads in order, up to the first that does
\* not report not-found. If all report not-found it has asked every one of them
\* and fails with not-found; if one fails with another error before any
\* recognizes D, that error is surfaced. In both cases the cache holds no entry
\* for D afterwards.
C8_StaleEntryThenScan ==
    CachedSaidNotFound
        => /\ locLast.evicted
           /\ locLast.scanned
           /\ locLast.queries[1] = Query(locLast.cacheBefore[locLast.id], locLast.id)
           /\ \A i \in 2..Len(locLast.queries) :
                 locLast.queries[i] = Query(registry[i - 1], locLast.id)
           /\ (Recognizers(locLast.id) = {} /\ Failing(locLast.id) = {})
                 => /\ locLast.out = "notfound"
                    /\ Len(locLast.queries) = 1 + Len(registry)
           /\ (Recognizers(locLast.id) = {} /\ Failing(locLast.id) # {})
                 => locLast.out = "error"
           /\ Recognizers(locLast.id) = {} => locLast.id \notin DOMAIN cache
           /\ locLast.out # "ok" => locLast.id \notin DOMAIN cache

\* C8 witness: D1 was cached for w2, both registered workloads report not-found,
\* and resolve asked w2, then w1 and w2, and failed with not-found.
C8_Witness ==
    /\ locLast.op = "resolve"
    /\ locLast.id = "D1"
    /\ locLast.evicted
    /\ registry = <<"w1", "w2">>
    /\ locLast.queries = <<Query("w2", "D1"), Query("w1", "D1"), Query("w2", "D1")>>
    /\ locLast.out = "notfound"
    /\ "D1" \notin DOMAIN cache

\* C9 as stated: whatever the cache holds, resolve fails with not-found exactly
\* when no registered workload recognizes D, and otherwise returns a workload that
\* recognizes D with the state it reported.
C9_ResultIgnoresCache ==
    locLast.op = "resolve"
        => /\ (locLast.out = "notfound") <=> (Recognizers(locLast.id) = {})
           /\ Recognizers(locLast.id) # {}
                 => /\ locLast.out = "ok"
                    /\ answers[locLast.name][locLast.id] = "found"
                    /\ locLast.state = [by |-> locLast.name, id |-> locLast.id]

\* C9, amended: whatever the cache holds, resolve either surfaces the error, other
\* than not-found, of a workload it queried, or fails with not-found exactly when
\* no registered workload recognizes D and otherwise returns a registered workload
\* that recognizes D with the state it reported. When no registered workload fails
\* with such an error, the outcome is one of the last two.
C9_ResultIgnoresCacheUnlessError ==
    locLast.op = "resolve"
        => /\ locLast.out \in {"ok", "notfound", "error"}
           /\ locLast.out = "error"
                 => /\ locLast.queries # <<>>
                    /\ answers[locLast.queries[Len(locLast.queries)].to][locLast.id]
                          = "error"
                    /\ locLast.name = locLast.queries[Len(locLast.queries)].to
           /\ locLast.out # "error"
                 => /\ (locLast.out = "notfound") <=> (Recognizers(locLast.id) = {})
                    /\ Recognizers(locLast.id) # {}
                          => /\ locLast.out = "ok"
                             /\ InRegistry(registry, locLast.name)
                             /\ answers[locLast.name][locLast.id] = "found"
                             /\ locLast.state = [by |-> locLast.name, id |-> locLast.id]
           /\ Failing(locLast.id) = {} => locLast.out # "error"

\* C9 witness: the cache named w1 for D1, w1 no longer knows D1, and resolve
\* returned w2 with w2's state.
C9_Witness ==
    /\ locLast.op = "resolve"
    /\ locLast.id = "D1"
    /\ "D1" \in DOMAIN locLast.cacheBefore
    /\ locLast.cacheBefore["D1"] = "w1"
    /\ locLast.evicted
    /\ locLast.out = "ok"
    /\ locLast.name = "w2"
    /\ locLast.state = [by |-> "w2", id |-> "D1"]

\* The queries of the scan of this resolve: all of them, but for the one to the
\* cached workload that came first.
ScanQueries == IF AskedCached THEN Tail(locLast.queries) ELSE locLast.queries

\* The first registered workload, in registry-list order, that recognizes d (0
\* when none does), and the first whose get_status fails otherwise.
FirstOf(S) == IF S = {} THEN 0 ELSE CHOOSE i \in S : \A j \in S : i <= j

\* The scan queried the registered workloads in order, from the first on.
ScannedInOrder ==
    /\ Len(ScanQueries) <= Len(registry)
    /\ \A i \in 1..Len(ScanQueries) : ScanQueries[i] = Query(registry[i], locLast.id)

\* C26 as stated: on a cache miss or fallthrough, resolve queries the workloads
\* in registry-list order, returns the first workload whose get_status succeeds,
\* queries none after it, and caches D -> that workload's registered name.
C26_ScanReturnsFirstRecognizer ==
    (locLast.op = "resolve" /\ locLast.scanned)
        => /\ ScannedInOrder
           /\ Recognizers(locLast.id) # {}
                 => /\ locLast.out = "ok"
                    /\ locLast.name = registry[FirstOf(Recognizers(locLast.id))]
                    /\ Len(ScanQueries) = FirstOf(Recognizers(locLast.id))
                    /\ locLast.id \in DOMAIN cache
                    /\ cache[locLast.id] = locLast.name

\* C26, amended: on a cache miss or fallthrough, resolve queries the workloads in
\* registry-list order up to the first whose get_status does not report
\* not-found. When that one succeeds, resolve returns it (it is the first
\* workload that recognizes D), has queried none after it, and caches D -> its
\* registered name; when it fails with another error, resolve surfaces the error
\* and caches nothing, even if a later workload recognizes D.
C26_ScanStopsAtFirstAnswer ==
    (locLast.op = "resolve" /\ locLast.scanned)
        => LET rec  == FirstOf(Recognizers(locLast.id))
               fail == FirstOf(Failing(locLast.id))
           IN  /\ ScannedInOrder
               /\ (rec # 0 /\ (fail = 0 \/ rec < fail))
                     => /\ locLast.out = "ok"
                        /\ locLast.name = registry[rec]
                        /\ Len(ScanQueries) = rec
                        /\ locLast.id \in DOMAIN cache
                        /\ cache[locLast.id] = locLast.name
               /\ (fail # 0 /\ (rec = 0 \/ fail < rec))
                     => /\ locLast.out = "error"
                        /\ locLast.name = registry[fail]
                        /\ Len(ScanQueries) = fail
                        /\ \A k \in DOMAIN cache :
                              k \in DOMAIN locLast.cacheBefore
                              /\ cache[k] = locLast.cacheBefore[k]
               /\ locLast.out = "ok" => rec # 0

\* C26 witness: on a cache miss, with w1 registered before w2 and both
\* recognizing D1, resolve asked w1 alone, returned it and cached D1 -> w1.
C26_Witness ==
    /\ locLast.op = "resolve"
    /\ locLast.id = "D1"
    /\ locLast.scanned
    /\ "D1" \notin DOMAIN locLast.cacheBefore
    /\ registry = <<"w1", "w2">>
    /\ answers["w2"]["D1"] = "found"
    /\ locLast.queries = <<Query("w1", "D1")>>
    /\ locLast.name = "w1"
    /\ cache["D1"] = "w1"

\* The queries of this resolve whose workload failed with an error other than
\* not-found.
FailedQueries ==
    {i \in 1..Len(locLast.queries) :
        answers[locLast.queries[i].to][locLast.id] = "error"}

\* C27 as stated: when a queried workload's get_status fails with an error other
\* than not-found, on the cached path or in the scan, resolve surfaces that
\* error, queries no further workload, and leaves the cache as it was.
C27_ErrorSurfacedCacheUnchanged ==
    (locLast.op = "resolve" /\ FailedQueries # {})
        => /\ locLast.out = "error"
           /\ FailedQueries = {Len(locLast.queries)}
           /\ locLast.name = locLast.queries[Len(locLast.queries)].to
           /\ cache = locLast.cacheBefore

\* C27, amended: when a queried workload's get_status fails with an error other
\* than not-found, on the cached path or in the scan, resolve surfaces that
\* error, queries no further workload, and writes no cache entry: the cache is
\* as it was before the call, except that D's entry is gone when the cached
\* workload had reported not-found before the scan met the error.
C27_ErrorSurfacedNothingCached ==
    (locLast.op = "resolve" /\ FailedQueries # {})
        => /\ locLast.out = "error"
           /\ FailedQueries = {Len(locLast.queries)}
           /\ locLast.name = locLast.queries[Len(locLast.queries)].to
           /\ locLast.evicted <=> CachedSaidNotFound
           /\ ~locLast.evicted => cache = locLast.cacheBefore
           /\ locLast.evicted
                 => /\ DOMAIN cache = DOMAIN locLast.cacheBefore \ {locLast.id}
                    /\ \A k \in DOMAIN cache : cache[k] = locLast.cacheBefore[k]
           /\ ~locLast.scanned => cache = locLast.cacheBefore

\* C27 witness: the cache named w1 for D1, w1's get_status failed, and resolve
\* surfaced the error after that one query, though w2 recognizes D1; the cache
\* still names w1.
C27_Witness ==
    /\ locLast.op = "resolve"
    /\ locLast.id = "D1"
    /\ ~locLast.scanned
    /\ locLast.out = "error"
    /\ locLast.queries = <<Query("w1", "D1")>>
    /\ answers["w2"]["D1"] = "found"
    /\ InRegistry(registry, "w2")
    /\ "D1" \in DOMAIN cache
    /\ cache["D1"] = "w1"

\* The cache entries of the identifiers other than d.
OtherEntries(c, d) == [k \in DOMAIN c \ {d} |-> c[k]]

\* Every cache entry names a workload of the registry.
CacheNamesRegistered == \A k \in DOMAIN cache : InRegistry(registry, cache[k])

\* C29: resolve(D) never adds, changes or removes the cache entry of an
\* identifier other than D; it writes D's entry only with the registered name of
\* a workload that has just answered get_status(D) successfully; and as long as
\* the Locator is handed the same registry, every cache entry names a workload
\* of that registry.
C29_ResolveTouchesOwnEntryOnly ==
    /\ [](locLast.op = "resolve"
            => /\ OtherEntries(cache, locLast.id) =
                     OtherEntries(locLast.cacheBefore, locLast.id)
               /\ (/\ locLast.id \in DOMAIN cache
                   /\ \/ locLast.id \notin DOMAIN locLast.cacheBefore
                      \/ cache[locLast.id] # locLast.cacheBefore[locLast.id])
                  => /\ locLast.out = "ok"
                     /\ cache[locLast.id] = locLast.name
                     /\ InRegistry(registry, locLast.name)
                     /\ answers[locLast.name][locLast.id] = "found"
                     /\ locLast.queries[Len(locLast.queries)] =
                           Query(locLast.name, locLast.id))
    /\ [][(locLast'.op # "new_registry" /\ CacheNamesRegistered)
             => CacheNamesRegistered']_vars

\* C29 witness: the cache held D2 -> w1; resolve(D1) scanned, found D1 at w2 and
\* wrote D1 -> w2, and D2's entry is as it was.
C29_Witness ==
    /\ locLast.op = "resolve"
    /\ locLast.id = "D1"
    /\ DOMAIN locLast.cacheBefore = {"D2"}
    /\ locLast.cacheBefore["D2"] = "w1"
    /\ locLast.out = "ok"
    /\ cache = [k \in {"D1", "D2"} |-> IF k = "D1" THEN "w2" ELSE "w1"]
    /\ CacheNamesRegistered

\* ------------------------------------------------------------ install properties
\* A source that is itself a URL: a scheme, then "//".
SourceIsUrl(raw) == Len(raw) >= 3 /\ raw[1] \in Schemes /\ raw[2] = ""

\* A source that, joined to the clone root and resolved through the symbolic
\* links of the clone, names a path that is not under the clone root.
SourceLeavesClone(raw, link) ==
    LET path == ResolvePath(JoinPath(CloneRoot, raw), link)
    IN  \/ Len(path) < Len(CloneRoot)
        \/ \E i \in 1..Len(CloneRoot) : path[i] # CloneRoot[i]

RanPip(steps) == \E i \in 1..Len(steps) : steps[i].ev = "pip"

\* C10: when the manifest's package.source resolves, symbolic links followed, to a
\* path outside the clone root, or is itself a URL, install_from_git raises the
\* installation error (ValueError) and has not run pip install.
C10_UnsafeSourceNeverInstalled ==
    (/\ instLast.op = "install_from_git"
     /\ repo.manifest.kind = "package"
     /\ \/ SourceLeavesClone(repo.manifest.source, repo.link)
        \/ SourceIsUrl(repo.manifest.source))
    => /\ ~instLast.res.ok
       /\ instLast.res.err = "ValueError"
       /\ ~RanPip(instLast.res.steps)
       /\ <<registry, classes>> = instLast.before

\* An install whose clone succeeded and whose manifest names a symbolic link that
\* points out of the clone was refused.
C10_Witness ==
    /\ instLast.op = "install_from_git"
    /\ instLast.clone = "ok"
    /\ repo.manifest.kind = "package"
    /\ repo.manifest.source = <<"sub", "..", "link">>
    /\ repo.link = "outside"
    /\ instLast.res.msg = "escapes the clone directory"

\* A source made of plain names, ".", ".." and "/" only.
PlainSource(raw) == \A i \in 1..Len(raw) : raw[i] \notin Schemes

StepsOf(ev, steps) == {i \in 1..Len(steps) : steps[i].ev = ev}

InstallCall == instLast.op \in {"install_from_git", "install_from_path"}

C12_CloneDeletedBeforeDiscovery ==
    instLast.op = "install_from_git"
        => LET steps == instLast.res.steps
           IN  /\ Cardinality(StepsOf("cleanup", steps)) = 1
               /\ \A c \in StepsOf("cleanup", steps) :
                     /\ \A i \in StepsOf("clone", steps) \cup
                               StepsOf("load_manifest", steps) \cup
                               StepsOf("pip", steps) : i < c
                     /\ \A i \in StepsOf("discover", steps) : i > c
               /\ instLast.res.ok => StepsOf("discover", steps) = {Len(steps)}

\* C12 witness: pip install failed in the clone, and the clone directory was
\* deleted after it.
C12_Witness ==
    /\ instLast.op = "install_from_git"
    /\ instLast.res.msg = "pip failed"
    /\ instLast.res.steps[Len(instLast.res.steps)] = Step("cleanup", CloneRoot)
    /\ StepsOf("pip", instLast.res.steps) # {}

\* C13: an install call that fails, whatever the cause, has run no discovery and
\* leaves _workloads, keys and classes, as it was before the call.
C13_FailedInstallKeepsRegistry ==
    (InstallCall /\ ~instLast.res.ok)
        => /\ StepsOf("discover", instLast.res.steps) = {}
           /\ <<registry, classes>> = instLast.before

\* C13 witness: an install failed while the environment held an entry point that
\* the registry had not yet discovered, and the registry stayed empty.
C13_Witness ==
    /\ instLast.op = "install_from_path"
    /\ ~instLast.res.ok
    /\ instLast.res.msg = "pip failed"
    /\ entryPoints # <<>>
    /\ registry = <<>>

\* The exceptions that are ValueError or a subclass of it (pydantic's
\* ValidationError is one).
IsValueError(err) == err \in {"ValueError", "ValidationError"}

\* C14: every failure of an install call is reported as the one installation
\* error kind, ValueError, with a cause in words.
C14_OneInstallErrorKind ==
    (InstallCall /\ ~instLast.res.ok)
        => /\ IsValueError(instLast.res.err)
           /\ instLast.res.msg # ""

\* C15: an install whose clone or pip step timed out fails, and no workload is
\* ever registered that no completed install put there.
C15_TimedOutInstallLeavesNothing ==
    /\ (InstallCall /\ "timeout" \in {instLast.clone, instLast.pip})
          => ~instLast.res.ok
    /\ InRegistry(registry, ManifestName) => installedOk

\* C19: install_from_path fails without running pip when the path is not a
\* directory or the manifest is missing, malformed or invalid; otherwise it reads
\* the manifest, then runs pip install once on the path, then runs
\* discover_workloads and returns the manifest's name exactly when pip succeeded.
C19_PathInstallOrder ==
    instLast.op = "install_from_path"
        => LET steps == instLast.res.steps
               bad   == \/ instLast.dir # "dir"
                        \/ repo.manifest.kind \in
                              {"missing", "malformed", "empty", "invalid"}
           IN  /\ bad => (~instLast.res.ok /\ StepsOf("pip", steps) = {})
               /\ instLast.dir # "dir" => steps = <<>>
               /\ ~bad => /\ Len(steps) >= 2
                          /\ steps[1] = Step("load_manifest", LocalPath)
                          /\ steps[2] = Step("pip", LocalPath)
                          /\ StepsOf("pip", steps) = {2}
                          /\ instLast.res.ok <=> (instLast.pip = "ok")
                          /\ StepsOf("discover", steps) =
                                (IF instLast.pip = "ok" THEN {3} ELSE {})
                          /\ instLast.res.ok => instLast.res.name = ManifestName

\* C19 witness: a path install read the manifest, ran pip, discovered, and the
\* registry holds the manifest's name.
C19_Witness ==
    /\ instLast.op = "install_from_path"
    /\ instLast.res.ok
    /\ Len(instLast.res.steps) = 3
    /\ instLast.res.steps[3].ev = "discover"
    /\ InRegistry(registry, ManifestName)
    /\ classes[ManifestName] = "Tm"

\* =========================================================================
\* WorkloadRegistry: properties
\* =========================================================================
Keys(reg) == {reg[i] : i \in 1..Len(reg)}

\* The plugins that load and are workload classes, by position.
Loadable == {i \in 1..Len(entryPoints) : entryPoints[i].kind = "workload"}

Discoverable(name) == \E i \in Loadable : entryPoints[i].name = name

\* The call just made was get_workload(w), right after register_workload(w, T).
GetAfterRegister == regLast.op = "get" /\ regLast.prev # ""

\* C16 as stated: register(w, T) followed by get(w) returns an instance whose
\* name is w and whose platform is the registry's.
C16_GetReturnsNamedInstance ==
    GetAfterRegister
        => /\ regLast.res[1].kind = "instance"
           /\ regLast.res[1].name = regLast.name
           /\ regLast.res[1].platform = platform

\* C16, amended: register(w, T) followed by get(w) returns, for a concrete class
\* T, an instance of T whose platform is the registry's and whose name is the
\* name T declares, which is w when T declares w; for an abstract T the
\* instantiation raises TypeError.
C16_GetReturnsInstanceOfClass ==
    GetAfterRegister
        => /\ regLast.prev \in ConcreteClasses
                => /\ regLast.res[1] = [kind |-> "instance", cls |-> regLast.prev,
                                        name |-> DeclaredName(regLast.prev),
                                        platform |-> platform]
                   /\ DeclaredName(regLast.prev) = regLast.name
                         => regLast.res[1].name = regLast.name
           /\ regLast.prev \notin ConcreteClasses
                => regLast.res[1].kind = "TypeError"

\* C16 witness: on a registry built with platform P1, T1 was registered as "w1"
\* and get("w1") returned an instance named "w1" holding P1.
C16_Witness ==
    /\ GetAfterRegister
    /\ platform = "P1"
    /\ regLast.name = "w1"
    /\ regLast.res[1] = [kind |-> "instance", cls |-> "T1", name |-> "w1",
                         platform |-> "P1"]

\* C17: get(name) for a name that was not registered and that no loadable plugin
\* carries returns None and raises nothing, whatever came before and whichever
\* plugins fail to load.
C17_UnknownNameGetsNone ==
    (/\ regLast.op = "get"
     /\ regLast.name \notin registered
     /\ ~Discoverable(regLast.name))
    => regLast.res[1] = NoInstance

\* C17 witness: get("w3") ran the lazy discovery over a plugin that raises and a
\* plugin that loads, and returned None.
C17_Witness ==
    /\ regLast.op = "get"
    /\ regLast.name = "w3"
    /\ registered = {}
    /\ entryPoints = <<[name |-> "w2", kind |-> "raises", cls |-> ""],
                       [name |-> "w1", kind |-> "workload", cls |-> "T1"]>>
    /\ registry = <<"w1">>
    /\ regLast.res[1] = NoInstance

\* C18: discover_workloads returns the dict and raises nothing; when the entry
\* points can be read, every plugin that loads a workload class is recorded under
\* its name with the class of the last such plugin of that name, whichever other
\* plugins raise or load something else; the keys that were there stay, in order,
\* and nothing else is added.
C18_DiscoverSkipsFailures ==
    /\ Keys(registry) = DOMAIN classes
    /\ regLast.op = "discover"
          => LET before == regLast.res[1]
                 after  == regLast.res[2]
             IN  /\ registry = after
                 /\ SubSeq(after, 1, Len(before)) = before
                 /\ regLast.cls = "read"
                       => /\ Keys(after) =
                                Keys(before) \cup {entryPoints[i].name : i \in Loadable}
                          /\ \A i \in Loadable :
                                (\A j \in Loadable :
                                    entryPoints[j].name = entryPoints[i].name => j <= i)
                                => classes[entryPoints[i].name] = entryPoints[i].cls
                 /\ regLast.cls # "read" => after = before

\* C18 witness: the first plugin raised on load, the second loaded T2 as "w2", and
\* discover recorded it.
C18_Witness ==
    /\ regLast.op = "discover"
    /\ entryPoints = <<[name |-> "w2", kind |-> "raises", cls |-> ""],
                       [name |-> "w2", kind |-> "workload", cls |-> "T2"]>>
    /\ regLast.res = <<<<>>, <<"w2">>>>
    /\ classes["w2"] = "T2"

\* C28: get(name) and list() run discovery exactly when _workloads is empty at
\* the call. With an entry in the map they leave the map as it is, so a name
\* that a plugin carries but that was not discovered is reported absent by get
\* and left out by list; with an empty map they discover first, and the map then
\* holds every loadable plugin.
C28_LazyDiscoveryOnlyWhenEmpty ==
    regLast.op \in {"get", "list"}
        => /\ regLast.before # <<>>
                 => /\ registry = regLast.before
                    /\ (regLast.op = "get" /\ regLast.name \notin Keys(regLast.before))
                          => regLast.res[1] = NoInstance
                    /\ regLast.op = "list" => regLast.res = <<regLast.before>>
           /\ (regLast.before = <<>> /\ regLast.read)
                 => /\ Keys(registry) = {entryPoints[i].name : i \in Loadable}
                    /\ (regLast.op = "get" /\ Discoverable(regLast.name))
                          => regLast.res[1].kind = "instance"
                    /\ regLast.op = "list" => regLast.res = <<registry>>
           /\ (regLast.before = <<>> /\ ~regLast.read) => registry = <<>>

\* C28 witness: T1 was registered as "w1" while a plugin carries "w2"; get("w2")
\* ran no discovery and returned None.
C28_Witness ==
    /\ regLast.op = "get"
    /\ regLast.name = "w2"
    /\ regLast.before = <<"w1">>
    /\ Discoverable("w2")
    /\ registry = <<"w1">>
    /\ regLast.res[1] = NoInstance

\* C30: no registry operation removes a name: across every register, discover,
\* get, list and install call, each key of _workloads stays a key, at its place in
\* the order; only the class under a key may be replaced.
C30_NamesNeverRemoved ==
    [][/\ Keys(registry) \subseteq Keys(registry')
       /\ DOMAIN classes \subseteq DOMAIN classes'
       /\ SubSeq(registry', 1, Len(registry)) = registry]_vars

\* C30 witness: "w1" was registered, an install brought the manifest's workload,
\* and after a discovery and a get both names are still there.
C30_Witness ==
    /\ regLast.op = "get"
    /\ installedOk
    /\ "w1" \in registered
    /\ registry = <<"w1", "m1">>
    /\ DOMAIN classes = {"w1", "m1"}

\* =========================================================================
\* WorkloadBase.start: properties
\* =========================================================================

\* C20: the default start(D) raises NotImplementedError, deploys nothing, and
\* leaves every saved DeploymentState and the whole state directory as they were:
\* no file is created, under D or under any other id.
C20_DefaultStartChangesNothing ==
    [][storeLast'.op = "start"
          => /\ storeLast'.res = Outcome("NotImplementedError", <<>>, {})
             /\ files' = files
             /\ lastSaved' = lastSaved
             /\ everSaved' = everSaved
             /\ writer' = writer]_vars

\* C20 witness: start was called on a saved, stopped deployment and raised.
C20_Witness ==
    /\ storeLast.op = "start"
    /\ storeLast.id = IdA
    /\ IdA \in DOMAIN lastSaved
    /\ lastSaved[IdA].status = "stopped"
    /\ ~writer.busy
    /\ storeLast.res.kind = "NotImplementedError"

\* =========================================================================
\* WorkloadBase.__init_subclass__: properties
\* =========================================================================

\* C21: every class that can be instantiated carries a name other than "base": a
\* class statement that leaves no method abstract and leaves the name at "base"
\* raises when the class is defined.
C21_ConcreteClassesAreNamed ==
    /\ \A c \in defined : NewWorkload(c) = "instance" => c.name # "base"
    /\ (/\ defLast.op = "class"
        /\ defLast.cls.complete
        /\ defLast.cls.name = "base")
       => defLast.res = "TypeError"

\* =========================================================================
\* The deploy and stop commands: properties
\* =========================================================================

\* The positions of a method among the calls of the latest command.
CallsOf(method) ==
    {i \in 1..Len(cliLast.ran.calls) : cliLast.ran.calls[i] = method}

\* C24: the deploy command never calls workload.deploy when validate_config
\* returned a non-empty list: it echoes the problems and exits with 1, nothing is
\* deployed; and every call of deploy comes after a call of validate_config.
C24_NoDeployAfterProblems ==
    cliLast.cmd = "deploy"
        => /\ cliLast.errors # <<>>
                => /\ CallsOf("deploy") = {}
                   /\ cliLast.ran.exit = 1
                   /\ cliLast.ran.out = <<"Configuration errors:">> \o cliLast.errors
                   /\ deployed = cliLast.before
           /\ \A i \in CallsOf("deploy") : \E j \in CallsOf("validate_config") : j < i
           /\ deployed # cliLast.before => CallsOf("deploy") # {}

\* C24 witness: validate_config returned two problems, and the command echoed
\* them and exited with 1 after that one call.
C24_Witness ==
    /\ cliLast.cmd = "deploy"
    /\ cliLast.errors = <<"p1", "p2">>
    /\ cliLast.ran.calls = <<"validate_config">>
    /\ cliLast.ran.exit = 1
    /\ deployed = cliLast.before

\* C25: the stop command calls workload.stop(D) only when the status resolved for
\* D is running; for every other status it exits with 1 without calling stop, and
\* the deployment's status stays what it was.
C25_StopOnlyWhenRunning ==
    cliLast.cmd = "stop"
        => /\ CallsOf("stop") # {} => cliLast.status = "running"
           /\ cliLast.status # "running"
                => /\ CallsOf("stop") = {}
                   /\ cliLast.ran.exit = 1
                   /\ deployed = cliLast.before

\* C25 witness: D1 was deployed, then stopped, and a second stop command found
\* it stopped, called get_status only, and exited with 1.
C25_Witness ==
    /\ cliLast.cmd = "stop"
    /\ cliLast.id = "D1"
    /\ cliLast.status = "stopped"
    /\ cliLast.ran.calls = <<"get_status">>
    /\ cliLast.ran.exit = 1
    /\ deployed["D1"].status = "stopped"

\* =========================================================================
\* Specifications
\* =========================================================================
StoreStart == StoreInit /\ LocatorIdle /\ InstallIdle /\ ClassesIdle /\ DriverIdle
CodecStart == CodecInit /\ LocatorIdle /\ InstallIdle /\ ClassesIdle /\ DriverIdle
LocatorStart == LocatorInit /\ StoreIdle /\ InstallIdle /\ ClassesIdle /\ DriverIdle
InstallStart == InstallInit /\ StoreIdle /\ ClassesIdle /\ DriverIdle
RegistryStart == RegistryInit /\ StoreIdle /\ InstallIdle /\ ClassesIdle /\ DriverIdle
RecordStart ==
    /\ StoreInit /\ LocatorIdle /\ InstallIdle /\ ClassesIdle /\ DriverIdle
NamesStart == NamesInit /\ StoreIdle /\ ClassesIdle /\ DriverIdle
DriverStart == DriverInit /\ StoreIdle /\ InstallIdle /\ ClassesIdle
ClassesStart == ClassesInit /\ StoreIdle /\ LocatorIdle /\ InstallIdle /\ DriverIdle

\* The State Store with a writing process and readers.
SpecStore == StoreStart /\ [][StoreNext]_vars
\* One save and its loads, over every state and id of the bounds.
SpecCodec == CodecStart /\ [][CodecNext]_vars
\* The Deployment Locator over a registry and workloads that change.
SpecLocator == LocatorStart /\ [][LocatorNext]_vars
\* install_from_git over every clone, manifest and pip outcome of the bounds.
SpecInstall == InstallStart /\ [][InstallNext]_vars

SpecRegistry == RegistryStart /\ [][RegistryNext]_vars
\* Whole saves of states with any owner and any timestamps, and loads.
SpecRecord == RecordStart /\ [][RecordNext]_vars
\* One registry under registrations, discoveries, lookups and installs.
SpecNames == NamesStart /\ [][NamesNext]_vars
\* The deploy and stop commands over two registered workloads.
SpecDriver == DriverStart /\ [][DriverNext]_vars
\* Class statements that subclass WorkloadBase, and instantiations.
SpecClasses == ClassesStart /\ [][ClassesNext]_vars

====
